---- MODULE Spec2Model ----
(***************************************************************************)
(* The matching engine of the exchange simulator: ExchangeEngine with its  *)
(* OrderBook, PriceLevel, Order, Fill, Position and Account objects.       *)
(* Decimal amounts are integers; uuid4 identifiers are fresh counters.     *)
(***************************************************************************)
EXTENDS Integers, Sequences, FiniteSets, TLC

\* ---- bounds of the model ------------------------------------------------
MaxOrders == 3
MaxPrice == 2
MaxQty == 2
DefaultBalance == 2

Sessions == {"A", "B"}
Symbols == {"BTC/USD"}
UnknownSymbol == "DOGE/USD"
Prices == 1..MaxPrice
Quantities == 1..MaxQty

\* Optional[Decimal] = None for the price of an order (a real price is > 0)
NoPrice == 0
\* "no order id": an exception or an error reply carries none
NoOrder == 0

Min(a, b) == IF a < b THEN a ELSE b

\* ---- models/orders.py: Order --------------------------------------------
NewOrder(order_id, session_id, symbol, side, order_type, price, quantity, tif) ==
    [order_id |-> order_id, session_id |-> session_id, symbol |-> symbol,
     side |-> side, order_type |-> order_type, price |-> price,
     quantity |-> quantity, filled_quantity |-> 0, status |-> "PENDING",
     time_in_force |-> tif]

\* Order.validate_order: which constructor arguments pydantic accepts
validate_order(order_type, price, quantity) ==
    /\ quantity > 0
    /\ ~(order_type = "LIMIT" /\ price = NoPrice)
    /\ (price # NoPrice => price > 0)

remaining_quantity(o) == o.quantity - o.filled_quantity

is_filled(o) == o.filled_quantity >= o.quantity

\* faulty variant of OrderFill: the status is left as it was
OrderFillNoStatus(o, q) == [o EXCEPT !.filled_quantity = @ + q]

\* Order.fill (its two raises are unreachable from _execute_fill, which
\* passes min(remaining, remaining) > 0)
OrderFill(o, q) ==
    LET o1 == [o EXCEPT !.filled_quantity = @ + q]
    IN  IF is_filled(o1) THEN [o1 EXCEPT !.status = "FILLED"]
        ELSE IF o1.filled_quantity > 0
             THEN [o1 EXCEPT !.status = "PARTIALLY_FILLED"]
             ELSE o1

\* Order.cancel (its raise on FILLED / CANCELLED is unreachable: cancel_order
\* tests the status first and place_order cancels only an order with a
\* remainder)
OrderCancel(o) == [o EXCEPT !.status = "CANCELLED"]

OrderReject(o) == [o EXCEPT !.status = "REJECTED"]

\* ---- engine/orderbook.py: PriceLevel ------------------------------------
RECURSIVE SumRemaining(_, _)
SumRemaining(ids, all) ==
    IF ids = <<>> THEN 0
    ELSE remaining_quantity(all[Head(ids)]) + SumRemaining(Tail(ids), all)

NewPriceLevel(price) == [price |-> price, orders |-> <<>>, total_quantity |-> 0]

LevelAddOrder(level, o) ==
    [level EXCEPT !.orders = Append(@, o.order_id),
                  !.total_quantity = @ + remaining_quantity(o)]

\* list.remove: drop the first occurrence
RECURSIVE SeqRemove(_, _)
SeqRemove(s, x) ==
    IF s = <<>> THEN <<>>
    ELSE IF Head(s) = x THEN Tail(s)
    ELSE <<Head(s)>> \o SeqRemove(Tail(s), x)

InSeq(s, x) == \E i \in 1..Len(s) : s[i] = x

\* faulty variant of LevelRemoveOrder: the total is left as it was
LevelRemoveOrderKeepsTotal(level, order_id, all) ==
    IF InSeq(level.orders, order_id)
    THEN [level EXCEPT !.orders = SeqRemove(level.orders, order_id)]
    ELSE level

\* PriceLevel.remove_order: the total is recomputed from the live orders;
\* an order that is not in the list leaves the level as it is
LevelRemoveOrder(level, order_id, all) ==
    IF InSeq(level.orders, order_id)
    THEN LET rest == SeqRemove(level.orders, order_id)
         IN  [level EXCEPT !.orders = rest,
                           !.total_quantity = SumRemaining(rest, all)]
    ELSE level

\* faulty variant of LevelIsEmpty: a level is never found empty
LevelIsNeverEmpty(level) == FALSE

\* PriceLevel.is_empty
LevelIsEmpty(level) == Len(level.orders) = 0

\* ---- engine/orderbook.py: OrderBook -------------------------------------
NoLevels == [p \in {} |-> NewPriceLevel(p)]

NewOrderBook(symbol) ==
    [symbol |-> symbol, bids |-> NoLevels, asks |-> NoLevels,
     bid_prices |-> <<>>, ask_prices |-> <<>>, orders |-> {}]

\* bisect.insort (= insort_right): binary search assuming ascending order
RECURSIVE BisectRight(_, _, _, _)
BisectRight(a, x, lo, hi) ==
    IF lo < hi
    THEN LET mid == (lo + hi) \div 2
         IN  IF x < a[mid + 1] THEN BisectRight(a, x, lo, mid)
             ELSE BisectRight(a, x, mid + 1, hi)
    ELSE lo

InsertAt(a, i, x) == SubSeq(a, 1, i) \o <<x>> \o SubSeq(a, i + 1, Len(a))

Insort(a, x) == InsertAt(a, BisectRight(a, x, 0, Len(a)), x)

\* list.sort(reverse=True)
RECURSIVE SortDesc(_)
SortDesc(a) ==
    IF a = <<>> THEN <<>>
    ELSE LET m == CHOOSE i \in 1..Len(a) : \A j \in 1..Len(a) : a[i] >= a[j]
         IN  <<a[m]>> \o SortDesc(SubSeq(a, 1, m - 1) \o SubSeq(a, m + 1, Len(a)))

WithLevel(levels, price, level) ==
    [p \in (DOMAIN levels) \cup {price} |-> IF p = price THEN level ELSE levels[p]]

WithoutLevel(levels, price) ==
    [p \in (DOMAIN levels) \ {price} |-> levels[p]]

\* OrderBook.add_order (the symbol and price checks hold for every caller)
BookAddOrder(book, o) ==
    IF o.side = "BUY"
    THEN LET fresh == o.price \notin DOMAIN book.bids
             level == IF fresh THEN NewPriceLevel(o.price) ELSE book.bids[o.price]
         IN  [book EXCEPT
                !.orders = @ \cup {o.order_id},
                !.bid_prices = IF fresh THEN SortDesc(Insort(@, o.price)) ELSE @,
                !.bids = WithLevel(@, o.price, LevelAddOrder(level, o))]
    ELSE LET fresh == o.price \notin DOMAIN book.asks
             level == IF fresh THEN NewPriceLevel(o.price) ELSE book.asks[o.price]
         IN  [book EXCEPT
                !.orders = @ \cup {o.order_id},
                !.ask_prices = IF fresh THEN Insort(@, o.price) ELSE @,
                !.asks = WithLevel(@, o.price, LevelAddOrder(level, o))]

\* OrderBook.remove_order: `all` holds the Order objects the levels refer to
BookRemoveOrder(book, order_id, all) ==
    IF order_id \notin book.orders \/ all[order_id].price = NoPrice
    THEN [book EXCEPT !.orders = @ \ {order_id}]
    ELSE LET o == all[order_id]
             b1 == [book EXCEPT !.orders = @ \ {order_id}]
         IN  IF o.side = "BUY"
             THEN IF o.price \in DOMAIN b1.bids
                  THEN LET lv == LevelRemoveOrder(b1.bids[o.price], order_id, all)
                       IN  IF LevelIsEmpty(lv)
                           THEN [b1 EXCEPT !.bids = WithoutLevel(@, o.price),
                                           !.bid_prices = SeqRemove(@, o.price)]
                           ELSE [b1 EXCEPT !.bids = WithLevel(@, o.price, lv)]
                  ELSE b1
             ELSE IF o.price \in DOMAIN b1.asks
                  THEN LET lv == LevelRemoveOrder(b1.asks[o.price], order_id, all)
                       IN  IF LevelIsEmpty(lv)
                           THEN [b1 EXCEPT !.asks = WithoutLevel(@, o.price),
                                           !.ask_prices = SeqRemove(@, o.price)]
                           ELSE [b1 EXCEPT !.asks = WithLevel(@, o.price, lv)]
                  ELSE b1

HasBestBid(book) == book.bid_prices # <<>>

HasBestAsk(book) == book.ask_prices # <<>>

\* OrderBook.get_best_bid / get_best_ask (None = NoPrice)
get_best_bid(book) == IF HasBestBid(book) THEN book.bid_prices[1] ELSE NoPrice

get_best_ask(book) == IF HasBestAsk(book) THEN book.ask_prices[1] ELSE NoPrice

\* OrderBook.get_depth with levels >= the number of price levels
DepthBids(book) ==
    [i \in 1..Len(book.bid_prices) |->
        <<book.bid_prices[i], book.bids[book.bid_prices[i]].total_quantity>>]

DepthAsks(book) ==
    [i \in 1..Len(book.ask_prices) |->
        <<book.ask_prices[i], book.asks[book.ask_prices[i]].total_quantity>>]

get_depth(book) == <<DepthBids(book), DepthAsks(book)>>

\* OrderBook.get_volume_at_price
get_volume_at_price(book, price, side) ==
    LET levels == IF side = "BUY" THEN book.bids ELSE book.asks
    IN  IF price \in DOMAIN levels THEN levels[price].total_quantity ELSE 0

\* ---- engine/accounts.py --------------------------------------------------
NewPosition(symbol) == [symbol |-> symbol, quantity |-> 0]

\* faulty variant of PositionUpdateOnFill: the side of the fill is not looked at
PositionUpdateUnsigned(pos, fill) == [pos EXCEPT !.quantity = @ + fill.quantity]

\* Position.update_on_fill: the signed quantity (average price and P&L are
\* derived figures that no operation of the engine reads back)
PositionUpdateOnFill(pos, fill) ==
    LET fill_qty == IF fill.side = "BUY" THEN fill.quantity ELSE 0 - fill.quantity
    IN  [pos EXCEPT !.quantity = @ + fill_qty]

NoPositions == [s \in {} |-> NewPosition(s)]

\* Account.__init__
NewAccount(session_id, balance) ==
    [session_id |-> session_id, balances |-> balance, positions |-> NoPositions]

\* Account.get_position creates the position on first use
get_position(acc, symbol) ==
    IF symbol \in DOMAIN acc.positions THEN acc.positions[symbol]
    ELSE NewPosition(symbol)

\* Account.update_position_on_fill
update_position_on_fill(acc, fill) ==
    LET pos == PositionUpdateOnFill(get_position(acc, fill.symbol), fill)
    IN  [acc EXCEPT !.positions =
            [s \in (DOMAIN @) \cup {fill.symbol} |->
                IF s = fill.symbol THEN pos ELSE @[s]]]

\* Account.get_balance / has_sufficient_balance: `>=` between the stored
\* balance and a Decimal. A balance stored as str makes `>=` raise TypeError.
BalanceIsDecimal(acc, currency) == acc.balances[currency].kind = "Decimal"

has_sufficient_balance(acc, currency, amount) ==
    acc.balances[currency].amount >= amount

\* AccountManager.get_or_create_account
get_or_create_account(accts, session_id, balance) ==
    IF session_id \in DOMAIN accts THEN accts
    ELSE [s \in (DOMAIN accts) \cup {session_id} |->
            IF s = session_id THEN NewAccount(session_id, balance) ELSE accts[s]]

\* AccountManager.__init__(default_balance): ExchangeEngine's own default and
\* the tests pass Decimal amounts ...
DecimalBalance == [USD |-> [kind |-> "Decimal", amount |-> DefaultBalance]]

\* ... ExchangeServer passes the configuration's Dict[str, str] as it is
StrBalance == [USD |-> [kind |-> "str", amount |-> DefaultBalance]]

\* ---- engine/exchange.py: ExchangeEngine ---------------------------------
VARIABLES
    all_orders,       \* _all_orders: order_id -> Order (ids are 1, 2, ...)
    orderbooks,       \* symbol -> OrderBook
    fills,            \* _fills
    last_prices,      \* _last_prices: symbol -> price (NoPrice = absent)
    accounts,         \* account_manager._accounts: session_id -> Account
    default_balance   \* account_manager._default_balance

engine_vars == <<all_orders, orderbooks, fills, last_prices, accounts, default_balance>>

\* ---- market_data/generator.py, server.py: the ticker ----------------------
VARIABLES
    generators,        \* symbol -> MarketDataGenerator fields
    subscriptions,     \* session_id -> the channels of SessionState.subscriptions
    ticker_produced,   \* symbol -> the messages get_market_data_message returned
    ticker_sent,       \* session_id -> the frames send_to_session was given
    ticks,             \* iterations of the loop of _broadcast_market_data
    broadcast_errors,  \* iterations that ended in `except Exception`
    broadcasting       \* where _broadcast_market_data is in its loop over the sessions

ticker_vars ==
    <<generators, subscriptions, ticker_produced, ticker_sent, ticks, broadcast_errors,
      broadcasting>>

\* ---- client/network/sequence_tracker.py ---------------------------------
VARIABLES
    expected_sequences,  \* SequenceTracker._expected_sequences: key -> int
    accepted_ids,        \* history: key -> the ids update took as the next one or
                         \* as the end of a gap, since the key was last reset
    reported_gaps        \* history: key -> the gaps update returned since then

tracker_vars == <<expected_sequences, accepted_ids, reported_gaps>>

\* ---- failures/strategies.py: RateLimitStrategy --------------------------
VARIABLES
    limiter,         \* the dicts and counters of a RateLimitStrategy
    limiter_config,  \* its constructor arguments
    high_volume,     \* HardcodedVolumeDetector._high_volume
    now,             \* datetime.now(timezone.utc), in ticks
    admitted_log,    \* history: session_id -> the admitted requests, in order
    violation_log,   \* history: session_id -> the times of its violations
    responses        \* history: session_id -> the 429 answers to its violations

limiter_vars ==
    <<limiter, limiter_config, high_volume, now, admitted_log, violation_log, responses>>

\* ---- server.py, failure_injector.py, message_router.py: the stream -------
VARIABLES
    injector,        \* FailureInjector: _enabled and the two lists of strategies
    silent,          \* ExchangeServer._silent_connection_strategy
    handlers,        \* MessageRouter._handlers: message type -> handler
    frames_handled,  \* history: how many text frames were handled
    last_handled,    \* history: the text frame handled last and what became of it
    silent_offered   \* history: session_id -> the frames the silent strategy was
                     \* given since its last reset, and whether it let them pass

stream_vars == <<injector, silent, handlers, frames_handled, last_handled, silent_offered>>

\* ---- rest_api.py, handlers/order.py: the handlers that are running --------
VARIABLES
    inflight         \* handler -> the request it is working on, and how far it is

\* ---- client/network: HeartbeatManager, NetworkManager ---------------------
VARIABLES
    heartbeat,       \* the fields of the HeartbeatManager
    network,         \* the fields of the NetworkManager
    hb_timers,       \* the request ids whose _check_pong_timeout task sleeps
    ping_log,        \* history: request id -> the PING sent, its PONGs, its timeout
    health_changes,  \* history: the calls of on_health_change
    recovery_log     \* history: what the last _handle_silent_connection did

client_vars == <<heartbeat, network, hb_timers, ping_log, health_changes, recovery_log>>

\* ---- failures/strategies.py: one strategy object and its callers -----------
VARIABLES
    tested,          \* the fields of the strategy object that is exercised
    offered,         \* history: the frames passed to apply, with the calling session
    emitted,         \* history: the frames apply and flush returned, to whom and when
    sleeping,        \* session -> the call of apply that is in asyncio.sleep
    clock            \* time.time(), in ticks

strategy_vars == <<tested, offered, emitted, sleeping, clock>>

\* ---- client/network/network_manager.py: the detectors and their recoveries -
VARIABLES
    manager,         \* the attributes of a NetworkManager and of its heartbeat
    tasks            \* task -> where its coroutine waits

recovery_vars == <<manager, tasks>>

vars == <<engine_vars, ticker_vars, tracker_vars, limiter_vars, stream_vars, inflight, client_vars,
          strategy_vars, recovery_vars>>

\* the mutable objects _match_order and _execute_fill work on
Engine ==
    [all_orders |-> all_orders, orderbooks |-> orderbooks, fills |-> fills,
     last_prices |-> last_prices, accounts |-> accounts]

NewFill(fill_id, o, price, quantity, is_maker) ==
    [fill_id |-> fill_id, order_id |-> o.order_id, session_id |-> o.session_id,
     symbol |-> o.symbol, side |-> o.side, price |-> price,
     quantity |-> quantity, is_maker |-> is_maker]

AccountOnFill(accts, fill) ==
    IF fill.session_id \in DOMAIN accts
    THEN [accts EXCEPT ![fill.session_id] = update_position_on_fill(@, fill)]
    ELSE accts

\* faulty variant of fill_qty_of: the maker's remainder is not looked at
fill_qty_taker_only(taker, maker) == remaining_quantity(taker)

fill_qty_of(taker, maker) ==
    Min(remaining_quantity(taker), remaining_quantity(maker))

\* ExchangeEngine._execute_fill -> [eng, fill] (fill = <<>> for None)
ExecuteFill(eng, taker_id, maker_id, price) ==
    LET taker == eng.all_orders[taker_id]
        maker == eng.all_orders[maker_id]
        fill_qty == fill_qty_of(taker, maker)
    IN  IF fill_qty <= 0 THEN [eng |-> eng, fill |-> <<>>]
        ELSE
        LET orders1 == [eng.all_orders EXCEPT
                          ![taker_id] = OrderFill(taker, fill_qty),
                          ![maker_id] = OrderFill(maker, fill_qty)]
            fill == NewFill(Len(eng.fills) + 1, taker, price, fill_qty, FALSE)
            maker_fill == NewFill(Len(eng.fills) + 2, maker, price, fill_qty, TRUE)
        IN  [eng |-> [eng EXCEPT
                        !.all_orders = orders1,
                        !.last_prices = [@ EXCEPT ![taker.symbol] = price],
                        !.fills = @ \o <<fill, maker_fill>>,
                        !.accounts = AccountOnFill(AccountOnFill(@, fill), maker_fill)],
             fill |-> <<fill>>]

\* faulty variant of MatchStops: a taker stops at a price equal to its own limit
MatchStopsAtLimit(eng, taker_id) ==
    LET order == eng.all_orders[taker_id]
        book == eng.orderbooks[order.symbol]
    IN  \/ remaining_quantity(order) <= 0
        \/ IF order.side = "BUY"
           THEN \/ ~HasBestAsk(book)
                \/ /\ order.order_type = "LIMIT" /\ order.price # NoPrice
                   /\ get_best_ask(book) >= order.price
                \/ get_best_ask(book) \notin DOMAIN book.asks
                \/ LevelIsEmpty(book.asks[get_best_ask(book)])
           ELSE \/ ~HasBestBid(book)
                \/ /\ order.order_type = "LIMIT" /\ order.price # NoPrice
                   /\ get_best_bid(book) <= order.price
                \/ get_best_bid(book) \notin DOMAIN book.bids
                \/ LevelIsEmpty(book.bids[get_best_bid(book)])

\* one turn of the while loop of _match_order: can the taker go on?
MatchStops(eng, taker_id) ==
    LET order == eng.all_orders[taker_id]
        book == eng.orderbooks[order.symbol]
    IN  \/ remaining_quantity(order) <= 0
        \/ IF order.side = "BUY"
           THEN \/ ~HasBestAsk(book)
                \/ /\ order.order_type = "LIMIT" /\ order.price # NoPrice
                   /\ get_best_ask(book) > order.price
                \/ get_best_ask(book) \notin DOMAIN book.asks
                \/ LevelIsEmpty(book.asks[get_best_ask(book)])
           ELSE \/ ~HasBestBid(book)
                \/ /\ order.order_type = "LIMIT" /\ order.price # NoPrice
                   /\ get_best_bid(book) < order.price
                \/ get_best_bid(book) \notin DOMAIN book.bids
                \/ LevelIsEmpty(book.bids[get_best_bid(book)])

\* faulty variant of HeadMaker: the newest order of the level is matched first
LastMaker(level) == level.orders[Len(level.orders)]

\* _match_order: `maker_order = level.orders[0]`, the FIFO head of the level
HeadMaker(level) == level.orders[1]

\* ExchangeEngine._match_order -> [eng, fills]
RECURSIVE MatchOrder(_, _, _)
MatchOrder(eng, taker_id, got) ==
    IF MatchStops(eng, taker_id) THEN [eng |-> eng, fills |-> got]
    ELSE
    LET order == eng.all_orders[taker_id]
        book == eng.orderbooks[order.symbol]
        best == IF order.side = "BUY" THEN get_best_ask(book) ELSE get_best_bid(book)
        level == IF order.side = "BUY" THEN book.asks[best] ELSE book.bids[best]
        maker_id == HeadMaker(level)
        r == ExecuteFill(eng, taker_id, maker_id, best)
        e1 == r.eng
        e2 == IF is_filled(e1.all_orders[maker_id])
              THEN [e1 EXCEPT !.orderbooks[order.symbol] =
                        BookRemoveOrder(@, maker_id, e1.all_orders)]
              ELSE e1
    IN  MatchOrder(e2, taker_id, got \o r.fill)

\* ExchangeEngine._validate_order_balance
NeedsBalance(order) == order.side = "BUY" /\ order.price # NoPrice

validate_order_balance(order, account) ==
    IF NeedsBalance(order)
    THEN has_sufficient_balance(account, "USD", order.price * order.quantity)
    ELSE TRUE

\* what a call hands back: `return order, fills` or the exception it raises
Returned(order_id, got) ==
    [result |-> "ok", message |-> "", order_id |-> order_id, fills |-> got]

Raised(exc, message) ==
    [result |-> exc, message |-> message, order_id |-> NoOrder, fills |-> <<>>]

\* faulty variant of AfterMatch: the IOC branch is missing, the remainder rests
AfterMatchNoIOC(eng, order_id, got) ==
    LET order == eng.all_orders[order_id]
    IN  IF remaining_quantity(order) > 0 /\ order.order_type = "LIMIT"
        THEN IF order.time_in_force = "FOK" /\ ~is_filled(order)
             THEN [eng |-> [eng EXCEPT !.all_orders[order_id] = OrderReject(order)],
                   fills |-> <<>>]
             ELSE [eng |-> [eng EXCEPT !.orderbooks[order.symbol] = BookAddOrder(@, order)],
                   fills |-> got]
        ELSE [eng |-> eng, fills |-> got]

\* the tail of place_order: what becomes of a LIMIT order with a remainder
AfterMatch(eng, order_id, got) ==
    LET order == eng.all_orders[order_id]
    IN  IF remaining_quantity(order) > 0 /\ order.order_type = "LIMIT"
        THEN IF order.time_in_force = "IOC"
             THEN [eng |-> [eng EXCEPT !.all_orders[order_id] = OrderCancel(order)],
                   fills |-> got]
             ELSE IF order.time_in_force = "FOK" /\ ~is_filled(order)
             THEN [eng |-> [eng EXCEPT !.all_orders[order_id] = OrderReject(order)],
                   fills |-> <<>>]
             ELSE [eng |-> [eng EXCEPT !.orderbooks[order.symbol] = BookAddOrder(@, order)],
                   fills |-> got]
        ELSE [eng |-> eng, fills |-> got]

\* ExchangeEngine.place_order -> [eng, ret]; req = [session_id, symbol, side,
\* order_type, quantity, price, time_in_force]
place_order(eng, balance, req) ==
    IF req.symbol \notin Symbols
    THEN [eng |-> eng, ret |-> Raised("ValueError", "Unknown symbol")]
    ELSE
    LET order_id == Len(eng.all_orders) + 1
        order == NewOrder(order_id, req.session_id, req.symbol, req.side,
                          req.order_type, req.price, req.quantity, req.time_in_force)
        accts == get_or_create_account(eng.accounts, req.session_id, balance)
        account == accts[req.session_id]
        e0 == [eng EXCEPT !.accounts = accts]
    IN  IF NeedsBalance(order) /\ ~BalanceIsDecimal(account, "USD")
        THEN [eng |-> e0, ret |-> Raised("TypeError", "'>=' not supported")]
        ELSE IF ~validate_order_balance(order, account)
        THEN [eng |-> [e0 EXCEPT !.all_orders = Append(@, OrderReject(order))],
              ret |-> Raised("ValueError", "Insufficient balance")]
        ELSE
        LET e1 == [e0 EXCEPT !.all_orders = Append(@, [order EXCEPT !.status = "OPEN"])]
            m == MatchOrder(e1, order_id, <<>>)
            r == AfterMatch(m.eng, order_id, m.fills)
        IN  [eng |-> r.eng, ret |-> Returned(order_id, r.fills)]

\* faulty variant of OwnedBy: any session may cancel
OwnedByAnyone(order, session_id) == TRUE

\* cancel_order: `order.session_id != session_id` raises
OwnedBy(order, session_id) == order.session_id = session_id

\* faulty variant of Cancellable: only the statuses Order.cancel itself refuses
CancellableUnlessDone(order) == order.status \notin {"FILLED", "CANCELLED"}

\* cancel_order: a status other than OPEN / PARTIALLY_FILLED raises
Cancellable(order) == order.status \in {"OPEN", "PARTIALLY_FILLED"}

\* ExchangeEngine.cancel_order -> [eng, ret]
cancel_order(eng, session_id, order_id) ==
    IF order_id \notin DOMAIN eng.all_orders
    THEN [eng |-> eng, ret |-> Raised("ValueError", "Order not found")]
    ELSE
    LET order == eng.all_orders[order_id]
    IN  IF ~OwnedBy(order, session_id)
        THEN [eng |-> eng,
              ret |-> Raised("ValueError", "Order does not belong to this session")]
        ELSE IF ~Cancellable(order)
        THEN [eng |-> eng,
              ret |-> Raised("ValueError", "Cannot cancel order with status")]
        ELSE
        LET e1 == IF order.price # NoPrice
                  THEN [eng EXCEPT !.orderbooks[order.symbol] =
                            BookRemoveOrder(@, order_id, eng.all_orders)]
                  ELSE eng
        IN  [eng |-> [e1 EXCEPT !.all_orders[order_id] = OrderCancel(order)],
             ret |-> Returned(order_id, <<>>)]

\* ExchangeEngine.get_order
get_order(eng, session_id, order_id) ==
    IF order_id \in DOMAIN eng.all_orders
       /\ eng.all_orders[order_id].session_id = session_id
    THEN order_id ELSE NoOrder

\* ExchangeEngine.get_fills(session_id)
get_fills(eng, session_id) ==
    SelectSeq(eng.fills, LAMBDA f : f.session_id = session_id)

\* ExchangeEngine.get_last_price
get_last_price(eng, symbol) == eng.last_prices[symbol]

\* OrderHandler._handle_place_order: the streaming reply to the outcome res
\* of place_order (an ErrorMessage has no order_id field: NoOrder)
handle_place_order(res) ==
    IF res.ret.result = "ok"
    THEN [type |-> "ORDER_ACK", order_id |-> res.ret.order_id,
          status |-> res.eng.all_orders[res.ret.order_id].status,
          code |-> "", message |-> ""]
    ELSE [type |-> "ERROR", order_id |-> NoOrder, status |-> "",
          code |-> "ORDER_FAILED", message |-> res.ret.message]

\* RestAPIHandler.place_order: the HTTP reply to the outcome res of place_order
rest_place_order(res) ==
    IF res.ret.result = "ok"
    THEN [http |-> 201, order_id |-> res.ret.order_id,
          status |-> res.eng.all_orders[res.ret.order_id].status, error |-> ""]
    ELSE IF res.ret.result = "ValueError"
    THEN [http |-> 400, order_id |-> NoOrder, status |-> "", error |-> res.ret.message]
    ELSE [http |-> 500, order_id |-> NoOrder, status |-> "",
          error |-> "Internal server error"]

\* ---- failures/strategies.py: the message strategies -----------------------
\* `None` where a message is expected
NoMessage == [none |-> TRUE]

\* a frame after CorruptMessageStrategy._corrupt has replaced characters of
\* it: what is left is no JSON any more
Corrupted(message) == [json |-> FALSE, was |-> message]

\* probabilities in percent; random.random() < probability / 100 for a draw
\* that is low (below any positive probability short of it) or not
Chance(probability, low) ==
    probability = 100 \/ (probability > 0 /\ low)

DropMessageStrategy(probability) ==
    [kind |-> "DropMessageStrategy", probability |-> probability, dropped_count |-> 0]

DuplicateMessageStrategy(probability) ==
    [kind |-> "DuplicateMessageStrategy", probability |-> probability,
     duplicated_count |-> 0, pending_duplicates |-> <<>>]

CorruptMessageStrategy(probability) ==
    [kind |-> "CorruptMessageStrategy", probability |-> probability,
     corrupted_count |-> 0]

\* ThrottleMessageStrategy(max_messages_per_second), with min_interval =
\* 1.0 / max_messages_per_second in ticks of the clock
ThrottleMessageStrategy(min_interval) ==
    [kind |-> "ThrottleMessageStrategy", min_interval |-> min_interval,
     last_message_time |-> 0, throttled_count |-> 0]

\* ThrottleMessageStrategy.apply up to its await -> [strategy, delay]; delay
\* is 0 when it does not sleep
throttle_enter(strategy, current_time) ==
    LET time_since_last == current_time - strategy.last_message_time
    IN  IF time_since_last < strategy.min_interval
        THEN [strategy |-> [strategy EXCEPT !.throttled_count = @ + 1],
              delay |-> strategy.min_interval - time_since_last]
        ELSE [strategy |-> strategy, delay |-> 0]

\* ThrottleMessageStrategy.apply from `self.last_message_time = time.time()`
throttle_leave(strategy, current_time) ==
    [strategy EXCEPT !.last_message_time = current_time]

\* ReorderMessagesStrategy(window_size); deque(maxlen=window_size)
ReorderMessagesStrategy(window_size) ==
    [kind |-> "ReorderMessagesStrategy", window_size |-> window_size, buffer |-> <<>>,
     reordered_count |-> 0]

\* deque.append on a deque with maxlen: a full deque discards its oldest item
DequeAppendMax(buffer, item, maxlen) ==
    IF Len(buffer) >= maxlen THEN Append(Tail(buffer), item) ELSE Append(buffer, item)

\* faulty variant of reorder_apply: the frame picked stays in the buffer
reorder_apply_keeps(strategy, message, index) ==
    LET buffer == DequeAppendMax(strategy.buffer, message, strategy.window_size)
    IN  IF Len(buffer) >= strategy.window_size
        THEN [strategy |-> [strategy EXCEPT !.buffer = Tail(buffer)],
              out |-> buffer[(index % Len(buffer)) + 1]]
        ELSE [strategy |-> [strategy EXCEPT !.buffer = buffer], out |-> NoMessage]

\* ReorderMessagesStrategy.apply -> [strategy, out]; index is what
\* random.randint(0, len(buffer) - 1) draws
reorder_apply(strategy, message, index) ==
    LET buffer == DequeAppendMax(strategy.buffer, message, strategy.window_size)
    IN  IF Len(buffer) >= strategy.window_size
        THEN LET at == (index % Len(buffer)) + 1
             IN  [strategy |->
                      [strategy EXCEPT !.buffer = SubSeq(buffer, 1, at - 1)
                                                   \o SubSeq(buffer, at + 1, Len(buffer)),
                                       !.reordered_count = IF at # 1 THEN @ + 1 ELSE @],
                   out |-> buffer[at]]
        ELSE [strategy |-> [strategy EXCEPT !.buffer = buffer], out |-> NoMessage]

\* ReorderMessagesStrategy.flush -> [strategy, out]
reorder_flush(strategy) ==
    [strategy |-> [strategy EXCEPT !.buffer = <<>>], out |-> strategy.buffer]

\* FailureStrategy.apply of the three strategies -> [strategy, out]; `low` is
\* the random draw, and max_duplicates is 1
strategy_apply(strategy, message, low) ==
    IF strategy.kind = "DropMessageStrategy"
    THEN IF Chance(strategy.probability, low)
         THEN [strategy |-> [strategy EXCEPT !.dropped_count = @ + 1],
               out |-> NoMessage]
         ELSE [strategy |-> strategy, out |-> message]
    ELSE IF strategy.kind = "DuplicateMessageStrategy"
    THEN IF strategy.pending_duplicates # <<>>
         THEN [strategy |-> [strategy EXCEPT !.pending_duplicates = Tail(@)],
               out |-> Head(strategy.pending_duplicates)]
         ELSE IF Chance(strategy.probability, low)
         THEN [strategy |-> [strategy EXCEPT !.duplicated_count = @ + 1,
                                             !.pending_duplicates = Append(@, message)],
               out |-> message]
         ELSE [strategy |-> strategy, out |-> message]
    ELSE IF Chance(strategy.probability, low)
    THEN [strategy |-> [strategy EXCEPT !.corrupted_count = @ + 1],
          out |-> Corrupted(message)]
    ELSE [strategy |-> strategy, out |-> message]

\* ---- failure_injector.py: FailureInjector --------------------------------
\* FailureInjector.__init__ followed by add_inbound_strategy /
\* add_outbound_strategy for the strategies of the two lists
NewInjector(inbound, outbound) ==
    [enabled |-> TRUE, inbound_strategies |-> inbound, outbound_strategies |-> outbound]

\* faulty variant of ApplyChain: a consumed message is handed on down the list
RECURSIVE ApplyChainToTheEnd(_, _, _, _, _)
ApplyChainToTheEnd(strategies, i, current_message, draws, calls) ==
    IF i > Len(strategies)
    THEN [strategies |-> strategies, out |-> current_message, calls |-> calls]
    ELSE
    LET r == strategy_apply(strategies[i], current_message, draws[i])
    IN  ApplyChainToTheEnd([strategies EXCEPT ![i] = r.strategy], i + 1, r.out, draws,
                           Append(calls, [index |-> i, given |-> current_message,
                                          returned |-> r.out]))

\* the `for strategy in ...` loop of inject_inbound / inject_outbound from
\* the i-th strategy on -> [strategies, out, calls]; calls lists the
\* strategies applied, with what each was given and what it returned
RECURSIVE ApplyChain(_, _, _, _, _)
ApplyChain(strategies, i, current_message, draws, calls) ==
    IF i > Len(strategies)
    THEN [strategies |-> strategies, out |-> current_message, calls |-> calls]
    ELSE
    LET r == strategy_apply(strategies[i], current_message, draws[i])
        applied == [strategies EXCEPT ![i] = r.strategy]
        called == Append(calls, [index |-> i, given |-> current_message,
                                 returned |-> r.out])
    IN  IF r.out = NoMessage
        THEN [strategies |-> applied, out |-> NoMessage, calls |-> called]
        ELSE ApplyChain(applied, i + 1, r.out, draws, called)

\* the body shared by inject_inbound and inject_outbound
inject(enabled, strategies, message, draws) ==
    IF ~enabled \/ strategies = <<>>
    THEN [strategies |-> strategies, out |-> message, calls |-> <<>>]
    ELSE ApplyChain(strategies, 1, message, draws, <<>>)

\* FailureInjector.inject_inbound -> [injector, out, calls]
inject_inbound(inj, message, draws) ==
    LET r == inject(inj.enabled, inj.inbound_strategies, message, draws)
    IN  [injector |-> [inj EXCEPT !.inbound_strategies = r.strategies],
         out |-> r.out, calls |-> r.calls]

\* FailureInjector.inject_outbound -> [injector, out, calls]
inject_outbound(inj, message, draws) ==
    LET r == inject(inj.enabled, inj.outbound_strategies, message, draws)
    IN  [injector |-> [inj EXCEPT !.outbound_strategies = r.strategies],
         out |-> r.out, calls |-> r.calls]

\* ---- failures/strategies.py: SilentConnectionStrategy --------------------
\* `self._silent_connection_strategy = None`
NoSilent == [kind |-> "None"]

\* SilentConnectionStrategy(enabled, after_messages)
SilentConnectionStrategy(enabled, after_messages) ==
    [kind |-> "SilentConnectionStrategy", enabled |-> enabled,
     after_messages |-> after_messages, session_counts |-> [x \in {} |-> 0],
     message_count |-> 0, dropped_count |-> 0]

\* the frames counted so far for a session
SessionCount(strategy, session_id) ==
    IF session_id \in DOMAIN strategy.session_counts
    THEN strategy.session_counts[session_id] ELSE 0

\* SilentConnectionStrategy.apply -> [strategy, out]
silent_apply(strategy, message, session_id) ==
    LET counted == [strategy EXCEPT !.message_count = @ + 1]
    IN  IF ~strategy.enabled THEN [strategy |-> counted, out |-> message]
        ELSE
        LET seen == SessionCount(strategy, session_id) + 1
            s1 == [counted EXCEPT !.session_counts =
                      [x \in (DOMAIN @) \cup {session_id} |->
                          IF x = session_id THEN seen ELSE @[x]]]
        IN  IF seen > strategy.after_messages
            THEN [strategy |-> [s1 EXCEPT !.dropped_count = @ + 1], out |-> NoMessage]
            ELSE [strategy |-> s1, out |-> message]

\* SilentConnectionStrategy.reset
silent_reset(strategy) ==
    [strategy EXCEPT !.session_counts = [x \in {} |-> 0],
                     !.message_count = 0, !.dropped_count = 0]

\* faulty variant of apply_silent_strategy: every session counted as one
apply_silent_strategy_shared(strategy, message, session_id) ==
    IF message = NoMessage \/ strategy = NoSilent
    THEN [strategy |-> strategy, out |-> message]
    ELSE silent_apply(strategy, message, "broadcast")

\* ExchangeServer._apply_silent_strategy -> [strategy, out]
apply_silent_strategy(strategy, message, session_id) ==
    IF message = NoMessage \/ strategy = NoSilent
    THEN [strategy |-> strategy, out |-> message]
    ELSE silent_apply(strategy, message, session_id)

\* ExchangeServer._apply_outbound_failures -> [injector, strategy, processed, out, calls]
apply_outbound_failures(inj, strategy, message, session_id, draws) ==
    LET processed == inject_outbound(inj, message, draws)
    IN  IF processed.out = NoMessage
        THEN [injector |-> processed.injector, strategy |-> strategy,
              processed |-> NoMessage, out |-> NoMessage, calls |-> processed.calls]
        ELSE
        LET quiet == apply_silent_strategy(strategy, processed.out, session_id)
        IN  [injector |-> processed.injector, strategy |-> quiet.strategy,
             processed |-> processed.out, out |-> quiet.out, calls |-> processed.calls]

\* ---- models/messages.py, message_router.py: MessageRouter ----------------
\* the keys of MessageRouter.MESSAGE_TYPE_MAP
ClientTypes ==
    {"PLACE_ORDER", "CANCEL_ORDER", "GET_ORDER", "GET_ORDERS", "GET_BALANCE",
     "GET_POSITION", "SUBSCRIBE", "UNSUBSCRIBE", "PING"}

\* the members of MessageType
MessageTypes ==
    ClientTypes \cup {"ORDER_ACK", "ORDER_FILL", "ORDER_CANCEL", "ORDER_REJECT",
                      "BALANCE_UPDATE", "POSITION_UPDATE", "MARKET_DATA",
                      "ORDERBOOK_UPDATE", "TRADE", "PONG", "ERROR"}

\* a JSON object without the key "type"
NoType == ""

\* Message.request_id = None
NoRequestId == ""

\* ErrorMessage.details = None
NoDetails == [x \in {} |-> ""]

NoBody == <<>>

\* a text frame that json.loads refuses
NotJson == [json |-> FALSE, was |-> NoMessage]

\* a text frame holding a JSON object; `valid` says whether model_validate
\* of the message class of its type accepts the fields
JsonFrame(type, request_id, valid, body) ==
    [json |-> TRUE, type |-> type, request_id |-> request_id, valid |-> valid,
     body |-> body]

Parsed(message) == [result |-> "ok", message |-> message]

ParseError(text) == [result |-> "ValueError", message |-> text]

\* faulty variant of parse_message: a type outside MessageType parses
parse_message_lenient(raw_message) ==
    IF ~raw_message.json THEN ParseError("Invalid JSON")
    ELSE IF raw_message.type = NoType
    THEN ParseError("Message must have a 'type' field")
    ELSE IF ~raw_message.valid THEN ParseError("Invalid message format")
    ELSE Parsed([type |-> raw_message.type, request_id |-> raw_message.request_id,
                 body |-> raw_message.body])

\* MessageRouter.parse_message
parse_message(raw_message) ==
    IF ~raw_message.json THEN ParseError("Invalid JSON")
    ELSE IF raw_message.type = NoType
    THEN ParseError("Message must have a 'type' field")
    ELSE IF raw_message.type \notin MessageTypes
    THEN ParseError("Unknown message type")
    ELSE IF raw_message.type \notin ClientTypes
    THEN ParseError("Unsupported message type")
    ELSE IF ~raw_message.valid THEN ParseError("Invalid message format")
    ELSE Parsed([type |-> raw_message.type, request_id |-> raw_message.request_id,
                 body |-> raw_message.body])

\* the reply messages, with the fields the model reads
PongMessage(request_id) ==
    [type |-> "PONG", request_id |-> request_id, code |-> "", details |-> NoDetails,
     order_id |-> NoOrder]

ErrorMessage(request_id, code, details) ==
    [type |-> "ERROR", request_id |-> request_id, code |-> code, details |-> details,
     order_id |-> NoOrder]

OrderReply(type, request_id, order_id) ==
    [type |-> type, request_id |-> request_id, code |-> "", details |-> NoDetails,
     order_id |-> order_id]

\* MessageRouter.serialize_message: the reply as a JSON text frame
serialize_message(message) ==
    [json |-> TRUE, type |-> message.type, request_id |-> message.request_id,
     code |-> message.code, details |-> message.details, order_id |-> message.order_id]

\* what a handler leaves behind -> [raised, reply, eng, subs]
Handled(reply, eng, subs) ==
    [raised |-> FALSE, reply |-> reply, eng |-> eng, subs |-> subs]

HandlerRaised(eng, subs) ==
    [raised |-> TRUE, reply |-> NoMessage, eng |-> eng, subs |-> subs]

\* ---- handlers/order.py: OrderHandler -------------------------------------
OrderHandler_handle(message, session_id, eng, balance, subs) ==
    IF message.type = "PLACE_ORDER"
    THEN LET res == place_order(eng, balance,
                                [session_id |-> session_id,
                                 symbol |-> message.body.symbol,
                                 side |-> message.body.side,
                                 order_type |-> message.body.order_type,
                                 quantity |-> message.body.quantity,
                                 price |-> message.body.price,
                                 time_in_force |-> message.body.time_in_force])
             reply == handle_place_order(res)
         IN  Handled(IF reply.type = "ERROR"
                     THEN ErrorMessage(message.request_id, reply.code, NoDetails)
                     ELSE OrderReply("ORDER_ACK", message.request_id, reply.order_id),
                     res.eng, subs)
    ELSE IF message.type = "CANCEL_ORDER"
    THEN LET res == cancel_order(eng, session_id, message.body.order_id)
         IN  Handled(IF res.ret.result = "ok"
                     THEN OrderReply("ORDER_CANCEL", message.request_id,
                                     res.ret.order_id)
                     ELSE ErrorMessage(message.request_id, "CANCEL_FAILED", NoDetails),
                     res.eng, subs)
    ELSE IF message.type = "GET_ORDER"
    THEN LET order == get_order(eng, session_id, message.body.order_id)
         IN  Handled(IF order # NoOrder
                     THEN OrderReply("ORDER_ACK", message.request_id, order)
                     ELSE ErrorMessage(message.request_id, "ORDER_NOT_FOUND", NoDetails),
                     eng, subs)
    ELSE IF message.type = "GET_ORDERS"
    THEN Handled(ErrorMessage(message.request_id, "NOT_IMPLEMENTED", NoDetails),
                 eng, subs)
    ELSE Handled(ErrorMessage(NoRequestId, "UNKNOWN_MESSAGE", NoDetails), eng, subs)

\* ---- handlers/subscription.py: SubscriptionHandler -----------------------
SubscriptionHandler_handle(message, session_id, eng, subs) ==
    LET channel_key == <<message.body.channel, message.body.symbol>>
    IN  IF message.type = "SUBSCRIBE"
        THEN IF session_id \in DOMAIN subs
             THEN Handled(NoMessage, eng,
                          [subs EXCEPT ![session_id] = @ \cup {channel_key}])
             ELSE Handled(ErrorMessage(message.request_id, "SUBSCRIBE_FAILED", NoDetails),
                          eng, subs)
        ELSE IF message.type = "UNSUBSCRIBE"
        THEN Handled(NoMessage, eng,
                     IF session_id \in DOMAIN subs
                     THEN [subs EXCEPT ![session_id] = @ \ {channel_key}]
                     ELSE subs)
        ELSE Handled(ErrorMessage(NoRequestId, "UNKNOWN_MESSAGE", NoDetails), eng, subs)

\* ---- handlers/heartbeat.py: HeartbeatHandler -----------------------------
HeartbeatHandler_handle(message, session_id, eng, subs) ==
    IF message.type = "PING"
    THEN Handled(PongMessage(message.request_id), eng, subs)
    ELSE Handled(ErrorMessage(NoRequestId, "UNKNOWN_MESSAGE", NoDetails), eng, subs)

\* a handler's handle(), by the handler's class; "MockHandler" is the unit
\* tests' handler whose handle raises
handle(handler, message, session_id, eng, balance, subs) ==
    IF handler = "OrderHandler"
    THEN OrderHandler_handle(message, session_id, eng, balance, subs)
    ELSE IF handler = "SubscriptionHandler"
    THEN SubscriptionHandler_handle(message, session_id, eng, subs)
    ELSE IF handler = "HeartbeatHandler"
    THEN HeartbeatHandler_handle(message, session_id, eng, subs)
    ELSE HandlerRaised(eng, subs)

\* what route leaves behind -> [raised, reply, eng, subs]; route catches
\* ValueError from parse_message and Exception from the handler
route(registered, raw_message, session_id, eng, balance, subs) ==
    LET parsed == parse_message(raw_message)
    IN  IF parsed.result # "ok"
        THEN Handled(ErrorMessage(NoRequestId, "INVALID_MESSAGE", NoDetails), eng, subs)
        ELSE
        LET message == parsed.message
        IN  IF message.type \notin DOMAIN registered
            THEN Handled(ErrorMessage(NoRequestId, "NO_HANDLER", NoDetails), eng, subs)
            ELSE
            LET done == handle(registered[message.type], message, session_id,
                               eng, balance, subs)
            IN  IF done.raised
                THEN Handled(ErrorMessage(NoRequestId, "HANDLER_ERROR",
                                          [message_type |-> message.type]),
                             eng, subs)
                ELSE done

\* ExchangeServer._register_handlers
ServerHandlers ==
    [t \in {"PLACE_ORDER", "CANCEL_ORDER", "GET_ORDER", "GET_ORDERS",
            "SUBSCRIBE", "UNSUBSCRIBE"} |->
        IF t \in {"SUBSCRIBE", "UNSUBSCRIBE"} THEN "SubscriptionHandler"
        ELSE "OrderHandler"]

\* ---- failures/strategies.py: RateLimitStrategy --------------------------
\* Times are whole ticks, TicksPerSecond of them to a second.
TicksPerSecond == 2

Seconds(n) == n * TicksPerSecond

\* timedelta.total_seconds() truncated by int()
WholeSeconds(ticks_between) == ticks_between \div TicksPerSecond

Max(a, b) == IF a >= b THEN a ELSE b

\* RateLimitStrategy.__init__; the detector's multiplier is the fraction
\* multiplier_num / multiplier_den
NewLimiterConfig(baseline_rps, wait_period_seconds, second_violation_ban_seconds, violation_window_seconds, multiplier_num, multiplier_den) ==
    [baseline_rps |-> baseline_rps,
     wait_period_seconds |-> wait_period_seconds,
     second_violation_ban_seconds |-> second_violation_ban_seconds,
     violation_window_seconds |-> violation_window_seconds,
     multiplier_num |-> multiplier_num, multiplier_den |-> multiplier_den]

NewLimiter ==
    [session_requests |-> [x \in {} |-> <<>>],
     maxlen |-> [x \in {} |-> 0],
     session_violations |-> [x \in {} |-> <<>>],
     session_bans |-> [x \in {} |-> 0],
     permanent_bans |-> {},
     rate_limited_count |-> 0]

\* RateLimitStrategy._get_current_limit with
\* HardcodedVolumeDetector.get_volume_multiplier
get_current_limit(cfg, high) ==
    IF high
    THEN Max(1, (cfg.baseline_rps * cfg.multiplier_num) \div cfg.multiplier_den)
    ELSE Max(1, cfg.baseline_rps)

\* `while request_times and request_times[0] < one_second_ago: popleft()`
RECURSIVE PopOld(_, _)
PopOld(request_times, one_second_ago) ==
    IF request_times # <<>> /\ Head(request_times) < one_second_ago
    THEN PopOld(Tail(request_times), one_second_ago)
    ELSE request_times

\* deque.append on a deque built with maxlen
DequeAppend(dq, maxlen, x) ==
    IF maxlen = 0 THEN dq
    ELSE IF Len(dq) >= maxlen THEN Append(Tail(dq), x)
    ELSE Append(dq, x)

With(f, key, value) ==
    [k \in (DOMAIN f) \cup {key} |-> IF k = key THEN value ELSE f[k]]

Without(f, key) == [k \in (DOMAIN f) \ {key} |-> f[k]]

\* retry_after = None
NoRetry == -1

Allowed == [allowed |-> TRUE, error |-> "", retry_after |-> NoRetry]

Refused(error, retry_after) ==
    [allowed |-> FALSE, error |-> error, retry_after |-> retry_after]

\* faulty variant of Escalate: the second violation is punished like the first
EscalateLate(lim, cfg, session_id, current_time, violation_count) ==
    IF violation_count >= 3
    THEN [lim |-> [lim EXCEPT !.permanent_bans = @ \cup {session_id}],
          ret |-> Refused("permanently banned", NoRetry)]
    ELSE [lim |-> [lim EXCEPT !.session_bans =
                        With(@, session_id, current_time + Seconds(cfg.wait_period_seconds))],
          ret |-> Refused("Rate limit exceeded", cfg.wait_period_seconds)]

\* _check_rate_limit: the penalty for the violation_count-th violation
Escalate(lim, cfg, session_id, current_time, violation_count) ==
    IF violation_count >= 3
    THEN [lim |-> [lim EXCEPT !.permanent_bans = @ \cup {session_id}],
          ret |-> Refused("permanently banned", NoRetry)]
    ELSE IF violation_count >= 2
    THEN [lim |-> [lim EXCEPT !.session_bans =
                        With(@, session_id,
                             current_time + Seconds(cfg.second_violation_ban_seconds))],
          ret |-> Refused("temporarily banned", cfg.second_violation_ban_seconds)]
    ELSE [lim |-> [lim EXCEPT !.session_bans =
                        With(@, session_id, current_time + Seconds(cfg.wait_period_seconds))],
          ret |-> Refused("Rate limit exceeded", cfg.wait_period_seconds)]

\* faulty variant of BanRefusal: a request during the ban starts the ban anew
BanRefusalExtends(lim, cfg, session_id, current_time) ==
    [lim |-> [lim EXCEPT !.session_bans[session_id] =
                  current_time + Seconds(cfg.wait_period_seconds)],
     ret |-> Refused("temporarily banned", cfg.wait_period_seconds)]

\* _check_rate_limit: the answer to a request during a temporary ban
BanRefusal(lim, cfg, session_id, current_time) ==
    [lim |-> lim,
     ret |-> Refused("temporarily banned",
                     WholeSeconds(lim.session_bans[session_id] - current_time) + 1)]

\* RateLimitStrategy._check_rate_limit -> [lim, ret]
check_rate_limit(lim, cfg, high, session_id, current_time) ==
    IF session_id \in lim.permanent_bans
    THEN [lim |-> lim, ret |-> Refused("permanently banned", NoRetry)]
    ELSE IF session_id \in DOMAIN lim.session_bans
            /\ lim.session_bans[session_id] > current_time
    THEN BanRefusal(lim, cfg, session_id, current_time)
    ELSE
    LET l0 == [lim EXCEPT !.session_bans = Without(@, session_id)]
        current_limit == get_current_limit(cfg, high)
        l1 == IF session_id \notin DOMAIN l0.session_requests
              THEN [l0 EXCEPT !.session_requests = With(@, session_id, <<>>),
                              !.maxlen = With(@, session_id, current_limit * 2),
                              !.session_violations = With(@, session_id, <<>>)]
              ELSE l0
        request_times == PopOld(l1.session_requests[session_id],
                                current_time - Seconds(1))
        l2 == [l1 EXCEPT !.session_requests[session_id] = request_times]
    IN  IF Len(request_times) >= current_limit
        THEN LET window_start == current_time - Seconds(cfg.violation_window_seconds)
                 violations == SelectSeq(Append(l2.session_violations[session_id],
                                                current_time),
                                         LAMBDA v : v > window_start)
                 l3 == [l2 EXCEPT !.session_violations[session_id] = violations]
             IN  Escalate(l3, cfg, session_id, current_time, Len(violations))
        ELSE [lim |-> [l2 EXCEPT !.session_requests[session_id] =
                            DequeAppend(request_times, l2.maxlen[session_id], current_time)],
              ret |-> Allowed]

\* RateLimitStrategy.apply -> [lim, ret]
limiter_apply(lim, cfg, high, session_id, current_time) ==
    LET r == check_rate_limit(lim, cfg, high, session_id, current_time)
    IN  IF r.ret.allowed THEN r
        ELSE [lim |-> [r.lim EXCEPT !.rate_limited_count = @ + 1], ret |-> r.ret]

\* RateLimiter.check_rate_limit (rest_api.py): a refusal is answered 429,
\* with a Retry-After header unless retry_after is None
rest_check_rate_limit(ret) ==
    IF ret.allowed THEN [status |-> 200, retry_after |-> NoRetry]
    ELSE [status |-> 429, retry_after |-> ret.retry_after]

\* ---- the limiter's steps --------------------------------------------------
MaxRequests == 6

MaxTime == 8

\* a limiter as the unit tests build them: baseline_rps 3, wait_period 1 s,
\* second_violation_ban 2 s, violation_window 4 s, volume_multiplier 0.5
SmallConfig == NewLimiterConfig(3, 1, 2, 4, 1, 2)

\* the limiter ExchangeServer._setup_rest_api builds
RestDefaults == NewLimiterConfig(10, 10, 60, 60, 1, 2)

\* the session RestAPIHandler._check_rate_limit falls back to when the caller
\* sends no X-Session-ID
RestSession == "rest-session"

\* the session whose requests the limiter's steps follow
LimitedSession == "A"

LimitedSessions == {LimitedSession, RestSession}

NoLog == [x \in LimitedSessions |-> <<>>]

\* the session is refused without a look at its request rate
IsBanned(lim, session_id, current_time) ==
    \/ session_id \in lim.permanent_bans
    \/ /\ session_id \in DOMAIN lim.session_bans
       /\ lim.session_bans[session_id] > current_time

RequestsMade ==
    limiter.rate_limited_count
        + Len(admitted_log[LimitedSession]) + Len(admitted_log[RestSession])

\* one call of RateLimitStrategy.apply for session_id at the time `now`,
\* with the three histories kept
Request(session_id) ==
    /\ RequestsMade < MaxRequests
    /\ LET r == limiter_apply(limiter, limiter_config, high_volume, session_id, now)
           violation == ~r.ret.allowed /\ ~IsBanned(limiter, session_id, now)
       IN  /\ limiter' = r.lim
           /\ admitted_log' =
                 IF r.ret.allowed
                 THEN [admitted_log EXCEPT ![session_id] =
                          Append(@, [time |-> now, high_volume |-> high_volume])]
                 ELSE admitted_log
           /\ violation_log' =
                 IF violation THEN [violation_log EXCEPT ![session_id] = Append(@, now)]
                 ELSE violation_log
           /\ responses' =
                 IF violation
                 THEN [responses EXCEPT ![session_id] =
                          Append(@, rest_check_rate_limit(r.ret))]
                 ELSE responses
    /\ UNCHANGED <<recovery_vars, strategy_vars, client_vars, inflight, stream_vars, engine_vars, ticker_vars, tracker_vars, limiter_config,
                   high_volume, now>>

\* the clock moves on by one tick
AdvanceClock ==
    /\ now < MaxTime
    /\ now' = now + 1
    /\ UNCHANGED <<recovery_vars, strategy_vars, client_vars, inflight, stream_vars, engine_vars, ticker_vars, tracker_vars, limiter, limiter_config,
                   high_volume, admitted_log, violation_log, responses>>

\* HardcodedVolumeDetector.set_high_volume
SetHighVolume(high) ==
    /\ high_volume' = high
    /\ UNCHANGED <<recovery_vars, strategy_vars, client_vars, inflight, stream_vars, engine_vars, ticker_vars, tracker_vars, limiter, limiter_config,
                   now, admitted_log, violation_log, responses>>

\* a REST client that keeps sending until it is refused ...
RestRequest ==
    /\ ~IsBanned(limiter, RestSession, now)
    /\ Len(responses[RestSession]) < 3
    /\ LET r == limiter_apply(limiter, limiter_config, high_volume, RestSession, now)
       IN  /\ limiter' = r.lim
           /\ admitted_log' =
                 IF r.ret.allowed
                 THEN [admitted_log EXCEPT ![RestSession] =
                          Append(@, [time |-> now, high_volume |-> high_volume])]
                 ELSE admitted_log
           /\ violation_log' =
                 IF r.ret.allowed THEN violation_log
                 ELSE [violation_log EXCEPT ![RestSession] = Append(@, now)]
           /\ responses' =
                 IF r.ret.allowed THEN responses
                 ELSE [responses EXCEPT ![RestSession] =
                          Append(@, rest_check_rate_limit(r.ret))]
    /\ UNCHANGED <<recovery_vars, strategy_vars, client_vars, inflight, stream_vars, engine_vars, ticker_vars, tracker_vars, limiter_config,
                   high_volume, now>>

\* ... and then sleeps until its ban has expired, or `late` ticks longer
RestWait(late) ==
    /\ RestSession \notin limiter.permanent_bans
    /\ IsBanned(limiter, RestSession, now)
    /\ now' = limiter.session_bans[RestSession] + late
    /\ UNCHANGED <<recovery_vars, strategy_vars, client_vars, inflight, stream_vars, engine_vars, ticker_vars, tracker_vars, limiter, limiter_config,
                   high_volume, admitted_log, violation_log, responses>>

\* RateLimitStrategy.__init__ with a detector that reports normal volume
LimiterIdle ==
    /\ limiter = NewLimiter
    /\ limiter_config = SmallConfig
    /\ high_volume = FALSE
    /\ now = 0
    /\ admitted_log = NoLog
    /\ violation_log = NoLog
    /\ responses = NoLog

\* ---- client/network/sequence_tracker.py ---------------------------------
NoGap == [channel |-> "", symbol |-> "", start_seq |-> 0, end_seq |-> 0]

Gap(channel, symbol, start_seq, end_seq) ==
    [channel |-> channel, symbol |-> symbol, start_seq |-> start_seq,
     end_seq |-> end_seq]

\* SequenceTracker.get_expected: `_expected_sequences.get(key, 1)`
get_expected(expected, channel, symbol) ==
    IF <<channel, symbol>> \in DOMAIN expected THEN expected[<<channel, symbol>>]
    ELSE 1

SetExpected(expected, key, value) ==
    [k \in (DOMAIN expected) \cup {key} |-> IF k = key THEN value ELSE expected[k]]

\* faulty variant of update: after a gap the id seen is expected once more
update_gap_resumes_at_seen(expected, channel, symbol, sequence_id) ==
    LET key == <<channel, symbol>>
        e == get_expected(expected, channel, symbol)
    IN  IF sequence_id < e
        THEN [expected |-> expected, gap |-> NoGap]
        ELSE IF sequence_id > e
        THEN [expected |-> SetExpected(expected, key, sequence_id),
              gap |-> Gap(channel, symbol, e, sequence_id - 1)]
        ELSE [expected |-> SetExpected(expected, key, sequence_id + 1), gap |-> NoGap]

\* SequenceTracker.update -> [expected, gap] (gap = NoGap for None)
update(expected, channel, symbol, sequence_id) ==
    LET key == <<channel, symbol>>
        e == get_expected(expected, channel, symbol)
    IN  IF sequence_id < e
        THEN [expected |-> expected, gap |-> NoGap]
        ELSE IF sequence_id > e
        THEN [expected |-> SetExpected(expected, key, sequence_id + 1),
              gap |-> Gap(channel, symbol, e, sequence_id - 1)]
        ELSE [expected |-> SetExpected(expected, key, sequence_id + 1), gap |-> NoGap]

\* SequenceTracker.reset
reset(expected, channel, symbol) ==
    [k \in (DOMAIN expected) \ {<<channel, symbol>>} |-> expected[k]]

\* SequenceTracker.__init__ and reset_all: the empty dict
NoExpected == [k \in {} |-> 1]

\* ---- the tracker's steps --------------------------------------------------
MaxSeq == 3

Channels == {"TICKER", "TRADES"}

TrackedSymbols == Symbols \cup {UnknownSymbol}

\* the ids a frame may carry (JSON integers; 0 is below every expectation)
SequenceIds == 0..MaxSeq

\* nothing was fed to the tracker yet
NoHistory == [k \in Channels \X TrackedSymbols |-> <<>>]

TrackerUpdate(channel, symbol, sequence_id) ==
    /\ \E r \in {update(expected_sequences, channel, symbol, sequence_id)} :
           /\ expected_sequences' = r.expected
           /\ accepted_ids' =
                  IF r.expected = expected_sequences THEN accepted_ids
                  ELSE [accepted_ids EXCEPT ![<<channel, symbol>>] = Append(@, sequence_id)]
           /\ reported_gaps' =
                  IF r.gap = NoGap THEN reported_gaps
                  ELSE [reported_gaps EXCEPT ![<<channel, symbol>>] = Append(@, r.gap)]
    /\ UNCHANGED <<recovery_vars, strategy_vars, client_vars, inflight, stream_vars, engine_vars, ticker_vars, limiter_vars>>

TrackerReset(channel, symbol) ==
    /\ expected_sequences' = reset(expected_sequences, channel, symbol)
    /\ accepted_ids' = [accepted_ids EXCEPT ![<<channel, symbol>>] = <<>>]
    /\ reported_gaps' = [reported_gaps EXCEPT ![<<channel, symbol>>] = <<>>]
    /\ UNCHANGED <<recovery_vars, strategy_vars, client_vars, inflight, stream_vars, engine_vars, ticker_vars, limiter_vars>>

TrackerResetAll ==
    /\ expected_sequences' = NoExpected
    /\ accepted_ids' = NoHistory
    /\ reported_gaps' = NoHistory
    /\ UNCHANGED <<recovery_vars, strategy_vars, client_vars, inflight, stream_vars, engine_vars, ticker_vars, limiter_vars>>

TrackerIdle ==
    /\ expected_sequences = NoExpected
    /\ accepted_ids = NoHistory
    /\ reported_gaps = NoHistory

\* ---- market_data/generator.py --------------------------------------------
\* MarketDataGenerator.__init__ (volume_24h only moves in generate_trade_message)
NewGenerator(symbol, initial_price) ==
    [symbol |-> symbol, current_price |-> initial_price,
     high_24h |-> initial_price, low_24h |-> initial_price, volume_24h |-> 0]

\* MarketDataGenerator._update_price with the price the price model drew
update_price(gen, new_price) ==
    [gen EXCEPT !.current_price = new_price,
                !.high_24h = IF new_price > @ THEN new_price ELSE @,
                !.low_24h = IF new_price < @ THEN new_price ELSE @]

\* the fields of MarketDataMessage declared with Field(...): no default
RequiredFields == {"symbol", "last_price", "sequence_id"}

\* MarketDataMessage(**fields): pydantic refuses a call that leaves out a
\* required field
MarketDataMessage(given) ==
    IF RequiredFields \subseteq DOMAIN given
    THEN [result |-> "ok", message |-> given]
    ELSE [result |-> "ValidationError", message |-> given]

\* bid and ask are price -/+ spread / 2 with spread = price * 0.0001, kept
\* here in units of 1 / SpreadScale
SpreadScale == 20000

\* MarketDataGenerator.get_market_data_message: the keyword arguments it
\* passes are symbol, last_price, bid, ask, volume_24h, high_24h, low_24h
get_market_data_message(gen) ==
    MarketDataMessage(
        [symbol |-> gen.symbol, last_price |-> gen.current_price,
         bid |-> gen.current_price * (SpreadScale - 1),
         ask |-> gen.current_price * (SpreadScale + 1),
         volume_24h |-> gen.volume_24h,
         high_24h |-> gen.high_24h, low_24h |-> gen.low_24h])

ChannelKey(symbol) == <<"TICKER", symbol>>

\* ConnectionManager.get_subscribed_sessions
get_subscribed_sessions(subs, channel) ==
    { x \in DOMAIN subs : channel \in subs[x] }

\* ---- server.py: ExchangeServer._broadcast_market_data --------------------
\* One pass of the for loop over a sequence of symbols, starting from
\* st = [produced, sent, raised]: an exception leaves the loop; `dropped`
\* says whether inject_outbound returns None for a frame.
RECURSIVE SendToSubscribed(_, _, _)
SendToSubscribed(st, sessions, final_message) ==
    IF sessions = {} THEN st
    ELSE
    LET session_id == CHOOSE x \in sessions : TRUE
        session_message == apply_silent_strategy(st.silent, final_message, session_id)
        st1 == [st EXCEPT !.silent = session_message.strategy,
                          !.sent[session_id] =
                              IF session_message.out = NoMessage THEN @
                              ELSE Append(@, session_message.out)]
    IN  SendToSubscribed(st1, sessions \ {session_id}, final_message)

RECURSIVE BroadcastLoop(_, _, _, _, _)
BroadcastLoop(st, symbols, gens, subs, dropped) ==
    IF symbols = <<>> \/ st.raised THEN st
    ELSE
    LET symbol == Head(symbols)
        market_data == get_market_data_message(gens[symbol])
    IN  IF market_data.result # "ok"
        THEN [st EXCEPT !.raised = TRUE]
        ELSE
        LET st1 == [st EXCEPT !.produced[symbol] = Append(@, market_data.message)]
            st2 == IF dropped THEN st1
                   ELSE SendToSubscribed(st1,
                            get_subscribed_sessions(subs, ChannelKey(symbol)),
                            market_data.message)
        IN  BroadcastLoop(st2, Tail(symbols), gens, subs, dropped)

\* _broadcast_market_data in `await asyncio.sleep(tick_interval)`; stalled
\* holds the sessions whose `await websocket.send(message)` does not return
\* for now
NotBroadcasting == [pc |-> "sleep", queue |-> <<>>, message |-> NoMessage, stalled |-> {}]

\* the orders in which `for session_id in subscribed_sessions` may visit the
\* set
IterationOrders(sessions) ==
    { order \in UNION {[1..n -> sessions] : n \in 0..Cardinality(sessions)} :
        /\ Len(order) = Cardinality(sessions)
        /\ \A i, j \in 1..Len(order) : i # j => order[i] # order[j] }

\* the order in which generators.items() yields the symbols
SymbolOrder == <<"BTC/USD">>

\* ---- the ticker's steps ---------------------------------------------------
MaxTicks == 4

\* the prices the price model may draw
TickPrices == 1..(MaxPrice + 1)

\* MarketDataGenerator._generate_loop: one tick of the price model
UpdatePrice(symbol, new_price) ==
    /\ generators' = [generators EXCEPT ![symbol] = update_price(@, new_price)]
    /\ UNCHANGED <<recovery_vars, strategy_vars, client_vars, inflight, stream_vars, engine_vars, tracker_vars, limiter_vars, subscriptions, ticker_produced, ticker_sent,
                   ticks, broadcast_errors, broadcasting>>

\* SubscriptionHandler -> ConnectionManager.add_subscription
Subscribe(session_id, symbol) ==
    /\ session_id \in DOMAIN subscriptions
    /\ subscriptions' = [subscriptions EXCEPT ![session_id] = @ \cup {ChannelKey(symbol)}]
    /\ UNCHANGED <<recovery_vars, strategy_vars, client_vars, inflight, stream_vars, engine_vars, tracker_vars, limiter_vars, generators, ticker_produced,
                   ticker_sent, ticks, broadcast_errors, broadcasting>>

\* SubscriptionHandler -> ConnectionManager.remove_subscription
Unsubscribe(session_id, symbol) ==
    /\ session_id \in DOMAIN subscriptions
    /\ subscriptions' = [subscriptions EXCEPT ![session_id] = @ \ {ChannelKey(symbol)}]
    /\ UNCHANGED <<recovery_vars, strategy_vars, client_vars, inflight, stream_vars, engine_vars, tracker_vars, limiter_vars, generators, ticker_produced,
                   ticker_sent, ticks, broadcast_errors, broadcasting>>

\* one iteration of `while self._running` in _broadcast_market_data
BroadcastMarketData(dropped) ==
    /\ ticks < MaxTicks
    /\ LET st == BroadcastLoop([produced |-> ticker_produced, sent |-> ticker_sent,
                                raised |-> FALSE, silent |-> silent],
                               SymbolOrder, generators, subscriptions, dropped)
       IN  /\ ticker_produced' = st.produced
           /\ ticker_sent' = st.sent
           /\ broadcast_errors' = IF st.raised THEN broadcast_errors + 1
                                   ELSE broadcast_errors
           /\ silent' = st.silent
    /\ ticks' = ticks + 1
    /\ UNCHANGED <<recovery_vars, strategy_vars, client_vars, inflight, engine_vars, tracker_vars, limiter_vars, generators, subscriptions,
                   injector, handlers, frames_handled, last_handled, silent_offered,
                   broadcasting>>

\* _broadcast_market_data wakes up with a frame for the symbol that passed
\* inject_outbound, and starts its loop over the subscribed sessions
BroadcastFrame(symbol, order) ==
    /\ broadcasting.pc = "sleep"
    /\ ticks < MaxTicks
    /\ order \in IterationOrders(get_subscribed_sessions(subscriptions, ChannelKey(symbol)))
    /\ ticks' = ticks + 1
    /\ broadcasting' =
           IF order = <<>> THEN broadcasting
           ELSE [broadcasting EXCEPT !.pc = "send", !.queue = order,
                                     !.message = [type |-> "MARKET_DATA", symbol |-> symbol,
                                                  tick |-> ticks + 1]]
    /\ UNCHANGED <<recovery_vars, strategy_vars, client_vars, inflight, stream_vars, engine_vars, tracker_vars, limiter_vars,
                   generators, subscriptions, ticker_produced, ticker_sent,
                   broadcast_errors>>

\* the loop's turn for the next session: _apply_silent_strategy, then
\* `await send_to_session`, which returns when websocket.send has returned
\* or raised
SendToSession(raises) ==
    /\ broadcasting.pc = "send"
    /\ \E session_id \in {Head(broadcasting.queue)} :
       \E session_message \in {apply_silent_strategy(silent, broadcasting.message, session_id)} :
          /\ session_message.out # NoMessage => session_id \notin broadcasting.stalled
          /\ silent' = session_message.strategy
          /\ ticker_sent' =
                 IF session_message.out = NoMessage \/ raises THEN ticker_sent
                 ELSE [ticker_sent EXCEPT ![session_id] = Append(@, session_message.out)]
          /\ broadcasting' =
                 IF Tail(broadcasting.queue) = <<>>
                 THEN [broadcasting EXCEPT !.pc = "sleep", !.queue = <<>>,
                                           !.message = NoMessage]
                 ELSE [broadcasting EXCEPT !.queue = Tail(@)]
    /\ UNCHANGED <<recovery_vars, strategy_vars, client_vars, inflight, engine_vars, tracker_vars, limiter_vars,
                   generators, subscriptions, ticker_produced, ticks, broadcast_errors,
                   injector, handlers, frames_handled, last_handled, silent_offered>>

\* a peer stops reading, so that a send to it waits for room in its buffer,
\* or reads again
PeerStalls(session_id, stalls) ==
    /\ stalls # (session_id \in broadcasting.stalled)
    /\ broadcasting' = [broadcasting EXCEPT !.stalled =
                            IF stalls THEN @ \cup {session_id} ELSE @ \ {session_id}]
    /\ UNCHANGED <<recovery_vars, strategy_vars, client_vars, inflight, stream_vars, engine_vars, tracker_vars, limiter_vars,
                   generators, subscriptions, ticker_produced, ticker_sent, ticks,
                   broadcast_errors>>

\* no text frame was handled yet
NoFrame ==
    [session_id |-> "", frame |-> NoMessage, inbound |-> NoMessage,
     reply |-> NoMessage, sent |-> NoMessage]

\* ---- rest_api.py, handlers/order.py: requests in flight --------------------
\* the handlers that may be running at once: the loop of _handle_websocket
\* of a connected session, and coroutines of RestAPIHandler.place_order /
\* cancel_order
Slots ==
    {[via |-> "ws", session_id |-> "A"], [via |-> "rest", session_id |-> "B"]}

\* ---- client/network/heartbeat.py: HeartbeatManager ------------------------
\* `self._ws = None`, and the connection number of a NetworkManager without
\* a websocket
NoWs == 0

\* HeartbeatManager.__init__; loop_alive says whether the task of
\* _heartbeat_loop is still in its while loop, ws is the connection the
\* manager pings
NewHeartbeat ==
    [running |-> FALSE, loop_alive |-> FALSE, healthy |-> TRUE, pending |-> {},
     ws |-> NoWs]

\* HeartbeatManager.start
heartbeat_start(hb, ws_connection) ==
    IF hb.running THEN [hb EXCEPT !.ws = ws_connection]
    ELSE [hb EXCEPT !.ws = ws_connection, !.running = TRUE, !.loop_alive = TRUE]

\* HeartbeatManager.stop: the loop's task is cancelled and the pending PINGs
\* are forgotten; _healthy is left as it is
heartbeat_stop(hb) ==
    [hb EXCEPT !.running = FALSE, !.loop_alive = FALSE, !.pending = {}]

\* HeartbeatManager.handle_pong -> [hb, notify]; notify lists the calls of
\* on_health_change it makes
handle_pong(hb, request_id) ==
    IF request_id \in hb.pending
    THEN [hb |-> [hb EXCEPT !.pending = @ \ {request_id}, !.healthy = TRUE],
          notify |-> IF hb.healthy THEN <<>> ELSE <<TRUE>>]
    ELSE [hb |-> hb, notify |-> <<>>]

\* HeartbeatManager._check_pong_timeout after its sleep -> [hb, notify]
check_pong_timeout(hb, request_id) ==
    IF request_id \in hb.pending
    THEN [hb |-> [hb EXCEPT !.pending = @ \ {request_id}, !.healthy = FALSE],
          notify |-> IF hb.healthy THEN <<FALSE>> ELSE <<>>]
    ELSE [hb |-> hb, notify |-> <<>>]

\* one iteration of _heartbeat_loop after its sleep -> [hb, notify, sent];
\* open is the connection that is open, sends says whether send_str returns
heartbeat_loop(hb, request_id, open, sends) ==
    IF ~hb.running \/ hb.ws = NoWs \/ hb.ws # open
    THEN [hb |-> [hb EXCEPT !.loop_alive = FALSE], notify |-> <<>>, sent |-> FALSE]
    ELSE IF sends
    THEN [hb |-> [hb EXCEPT !.pending = @ \cup {request_id}], notify |-> <<>>,
          sent |-> TRUE]
    ELSE [hb |-> [hb EXCEPT !.healthy = FALSE, !.loop_alive = FALSE],
          notify |-> IF hb.healthy THEN <<FALSE>> ELSE <<>>, sent |-> FALSE]

\* ---- client/network/network_manager.py: NetworkManager --------------------
\* NetworkConfig.reconnect_initial_backoff, in seconds
ReconnectInitialBackoff == 1

\* NetworkConfig.reconnect_max_backoff, in seconds
ReconnectMaxBackoff == 10

\* NetworkConfig.reconnect_max_attempts
ReconnectMaxAttempts == 5

\* the (channel, symbol) pairs the client of the model subscribes to
Pairs == {<<"TICKER", "BTC/USD">>, <<"TICKER", "ETH/USD">>}

\* NetworkManager.__init__; recovery is the position of
\* _handle_silent_connection, conns counts the websockets opened so far and
\* open is the one that is not closed
NewNetwork ==
    [ws |-> NoWs, open |-> NoWs, conns |-> 0, ws_connected |-> FALSE,
     connection_healthy |-> TRUE, subscriptions |-> {}, monitor |-> FALSE,
     recovery |-> "idle", attempts |-> 0, delay |-> ReconnectInitialBackoff]

\* NetworkManager.connect_ws -> [net, hb, ret]; connects says whether
\* ws_connect returns
connect_ws(net, hb, connects) ==
    IF connects
    THEN [net |-> [net EXCEPT !.ws = net.conns + 1, !.open = net.conns + 1,
                              !.conns = @ + 1, !.ws_connected = TRUE,
                              !.monitor = TRUE],
          hb |-> heartbeat_start(hb, net.conns + 1), ret |-> TRUE]
    ELSE [net |-> [net EXCEPT !.ws_connected = FALSE], hb |-> hb, ret |-> FALSE]

\* NetworkManager.disconnect_ws -> [net, hb]
disconnect_ws(net, hb) ==
    [net |-> [net EXCEPT !.monitor = FALSE, !.open = NoWs, !.ws = NoWs,
                         !.ws_connected = FALSE],
     hb |-> heartbeat_stop(hb)]

\* NetworkManager._on_heartbeat_health_change for the calls in notify
on_heartbeat_health_change(net, notify) ==
    IF notify = <<>> THEN net
    ELSE IF notify[1] THEN [net EXCEPT !.connection_healthy = TRUE]
    ELSE [net EXCEPT !.connection_healthy = FALSE, !.ws_connected = FALSE,
                     !.recovery = IF @ = "idle" THEN "disconnect" ELSE @]

\* NetworkManager._backfill_price_history: the symbols it requests
backfill_price_history(net) == { pair[2] : pair \in net.subscriptions }

\* NetworkManager._resubscribe_channels: the pairs it sends a SUBSCRIBE for
resubscribe_channels(net) ==
    IF net.ws = NoWs \/ net.ws # net.open THEN {} ELSE net.subscriptions

\* faulty variant of NextDelay: the delay is not capped
NextDelayUncapped(delay) == delay * 2

\* `delay = min(delay * 2, max_delay)` in _attempt_reconnect
NextDelay(delay) == Min(delay * 2, ReconnectMaxBackoff)

\* ---- client/network/network_manager.py: recoveries, await by await -------
\* the coroutines that can run _handle_silent_connection: the task of
\* _monitor_ws_activity, the caller of receive_ws_message, and the task that
\* _on_heartbeat_health_change creates
Runners == {"monitor", "receive", "recovery"}

\* a coroutine that is not running, or not running any more
TaskAt(pc) == [pc |-> pc, attempts |-> 0, awaited |-> "none"]

\* a NetworkManager connected on its first websocket, one PING pending;
\* activity_monitor_task is "first" for the monitor started with that
\* websocket, "later" for one started by a reconnect, "later_done" once that
\* one was cancelled; connection_recovery_task says whether
\* _connection_recovery_task holds a task
ConnectedManager ==
    [ws |-> 1, conns |-> 1, ws_connected |-> TRUE, connection_healthy |-> TRUE,
     activity_monitor_task |-> "first", connection_recovery_task |-> FALSE,
     healthy |-> TRUE, pending |-> TRUE]

\* whether `await self._activity_monitor_task` has to wait: the task it
\* holds has not finished
MonitorAlive(m, t) ==
    \/ m.activity_monitor_task = "later"
    \/ m.activity_monitor_task = "first" /\ t["monitor"].pc # "done"

\* disconnect_ws from `self._activity_monitor_task = None` on (heartbeat.stop
\* clears the pending PINGs, the websocket is closed)
disconnect_ws_rest(m) ==
    [m EXCEPT !.activity_monitor_task = "none", !.pending = FALSE, !.ws = NoWs,
              !.ws_connected = FALSE]

\* _handle_silent_connection up to its first await -> [m, t]: with a live
\* monitor task it cancels the task (a sleeping monitor ends) and waits for
\* it in _stop_activity_monitor; without one it goes on to the first
\* connect_ws of _attempt_reconnect
handle_silent_connection(m, t, runner) ==
    IF MonitorAlive(m, t)
    THEN [m |-> [m EXCEPT !.activity_monitor_task =
                    IF @ = "later" THEN "later_done" ELSE @],
          t |-> [x \in DOMAIN t |->
                    IF x = runner
                    THEN [pc |-> "await_monitor", attempts |-> 0,
                          awaited |-> m.activity_monitor_task]
                    ELSE IF x = "monitor" /\ m.activity_monitor_task = "first"
                                          /\ t[x].pc = "sleep"
                    THEN TaskAt("done")
                    ELSE t[x]]]
    ELSE [m |-> disconnect_ws_rest(m),
          t |-> [t EXCEPT ![runner] =
                    [pc |-> "reconnect", attempts |-> 1, awaited |-> "none"]]]

\* no client of this kind is running
RecoveryIdle ==
    /\ manager = [ConnectedManager EXCEPT !.ws = NoWs, !.conns = 0, !.ws_connected = FALSE,
                                          !.activity_monitor_task = "none",
                                          !.pending = FALSE]
    /\ tasks = [x \in Runners \cup {"timeout"} |-> TaskAt("none")]

\* no strategy object is being exercised
StrategyIdle ==
    /\ tested = NoSilent
    /\ offered = <<>>
    /\ emitted = <<>>
    /\ sleeping = [x \in Sessions |-> NoMessage]
    /\ clock = 0

\* NetworkManager.__init__ with no websocket yet
ClientIdle ==
    /\ heartbeat = NewHeartbeat
    /\ network = NewNetwork
    /\ hb_timers = {}
    /\ ping_log = <<>>
    /\ health_changes = <<>>
    /\ recovery_log = <<>>

\* no handler is working on a request
NoInflight == [kind |-> "none", pc |-> "idle"]

\* ExchangeServer.__init__ with failures disabled
StreamIdle ==
    /\ inflight = [slot \in Slots |-> NoInflight]
    /\ injector = [NewInjector(<<>>, <<>>) EXCEPT !.enabled = FALSE]
    /\ silent = NoSilent
    /\ handlers = ServerHandlers
    /\ frames_handled = 0
    /\ last_handled = NoFrame
    /\ silent_offered = [x \in Sessions |-> <<>>]

\* ExchangeServer.__init__ with no client connected yet; the engine is idle
TickerIdle ==
    /\ generators = [s \in Symbols |-> NewGenerator(s, 1)]
    /\ subscriptions = [x \in Sessions |-> {}]
    /\ ticker_produced = [s \in Symbols |-> <<>>]
    /\ ticker_sent = [x \in Sessions |-> <<>>]
    /\ ticks = 0
    /\ broadcast_errors = 0
    /\ broadcasting = NotBroadcasting

EngineIdle ==
    /\ all_orders = <<>>
    /\ orderbooks = [s \in Symbols |-> NewOrderBook(s)]
    /\ fills = <<>>
    /\ last_prices = [s \in Symbols |-> NoPrice]
    /\ accounts = [s \in {} |-> NewAccount(s, DecimalBalance)]
    /\ default_balance = DecimalBalance

TickerInit ==
    /\ EngineIdle
    /\ StreamIdle
    /\ ClientIdle
    /\ StrategyIdle
    /\ RecoveryIdle
    /\ TrackerIdle
    /\ LimiterIdle
    /\ \E initial_price \in TickPrices :
          generators = [s \in Symbols |-> NewGenerator(s, initial_price)]
    /\ subscriptions = [x \in Sessions |-> {}]
    /\ ticker_produced = [s \in Symbols |-> <<>>]
    /\ ticker_sent = [x \in Sessions |-> <<>>]
    /\ ticks = 0
    /\ broadcast_errors = 0
    /\ broadcasting = NotBroadcasting

TickerNext ==
    \/ \E symbol \in Symbols, new_price \in TickPrices : UpdatePrice(symbol, new_price)
    \/ \E session_id \in Sessions, symbol \in Symbols : Subscribe(session_id, symbol)
    \/ \E session_id \in Sessions, symbol \in Symbols : Unsubscribe(session_id, symbol)
    \/ \E dropped \in BOOLEAN : BroadcastMarketData(dropped)

TickerSpec == TickerInit /\ [][TickerNext]_vars

\* the loop over the sessions, for frames that were built and passed
\* inject_outbound
BroadcastInit ==
    /\ EngineIdle
    /\ StreamIdle
    /\ ClientIdle
    /\ StrategyIdle
    /\ RecoveryIdle
    /\ TrackerIdle
    /\ LimiterIdle
    /\ TickerIdle

BroadcastNext ==
    \/ \E session_id \in Sessions, symbol \in Symbols : Subscribe(session_id, symbol)
    \/ \E session_id \in Sessions, symbol \in Symbols : Unsubscribe(session_id, symbol)
    \/ \E symbol \in Symbols :
          \E order \in UNION { IterationOrders(sessions) : sessions \in SUBSET Sessions } :
             BroadcastFrame(symbol, order)
    \/ \E raises \in BOOLEAN : SendToSession(raises)
    \/ \E session_id \in Sessions, stalls \in BOOLEAN : PeerStalls(session_id, stalls)

BroadcastSpec == BroadcastInit /\ [][BroadcastNext]_vars

TrackerInit ==
    /\ EngineIdle
    /\ StreamIdle
    /\ ClientIdle
    /\ StrategyIdle
    /\ RecoveryIdle
    /\ TickerIdle
    /\ LimiterIdle
    /\ expected_sequences = NoExpected
    /\ accepted_ids = NoHistory
    /\ reported_gaps = NoHistory

TrackerNext ==
    \/ \E channel \in Channels, symbol \in TrackedSymbols, sequence_id \in SequenceIds :
          TrackerUpdate(channel, symbol, sequence_id)
    \/ \E channel \in Channels, symbol \in TrackedSymbols : TrackerReset(channel, symbol)
    \/ TrackerResetAll

TrackerSpec == TrackerInit /\ [][TrackerNext]_vars

LimiterInit ==
    /\ EngineIdle
    /\ StreamIdle
    /\ ClientIdle
    /\ StrategyIdle
    /\ RecoveryIdle
    /\ TickerIdle
    /\ TrackerIdle
    /\ limiter = NewLimiter
    /\ limiter_config = SmallConfig
    /\ high_volume \in BOOLEAN
    /\ now = 0
    /\ admitted_log = NoLog
    /\ violation_log = NoLog
    /\ responses = NoLog

LimiterNext ==
    \/ \E session_id \in {LimitedSession} : Request(session_id)
    \/ AdvanceClock
    \/ \E high \in BOOLEAN : SetHighVolume(high)

LimiterSpec == LimiterInit /\ [][LimiterNext]_vars

\* the REST limiter as the server configures it, and one client
RestInit ==
    /\ EngineIdle
    /\ StreamIdle
    /\ ClientIdle
    /\ StrategyIdle
    /\ RecoveryIdle
    /\ TickerIdle
    /\ TrackerIdle
    /\ limiter = NewLimiter
    /\ limiter_config = RestDefaults
    /\ high_volume = FALSE
    /\ now = 0
    /\ admitted_log = NoLog
    /\ violation_log = NoLog
    /\ responses = NoLog

RestNext ==
    \/ RestRequest
    \/ \E late \in 0..Seconds(1) : RestWait(late)

RestSpec == RestInit /\ [][RestNext]_vars

\* ---- server.py: ExchangeServer._handle_websocket -------------------------
MaxFrames == 3

MaxAfter == 1

\* the draws for a list of strategies: one per strategy, fixed to FALSE where
\* the strategy's probability leaves nothing to chance
Draws(strategies) ==
    { d \in [DOMAIN strategies -> BOOLEAN] :
        \A i \in DOMAIN strategies :
            d[i] => /\ "probability" \in DOMAIN strategies[i]
                    /\ strategies[i].probability \notin {0, 100} }

\* the text frames the clients of the model send
PingFrame(request_id) == JsonFrame("PING", request_id, TRUE, NoBody)

SubscribeFrame(request_id) ==
    JsonFrame("SUBSCRIBE", request_id, TRUE, [channel |-> "TICKER", symbol |-> "BTC/USD"])

PlaceOrderFrame(request_id, side) ==
    JsonFrame("PLACE_ORDER", request_id, TRUE,
              [symbol |-> "BTC/USD", side |-> side, order_type |-> "LIMIT",
               quantity |-> 1, price |-> 1, time_in_force |-> "GTC"])

CancelOrderFrame(request_id, order_id) ==
    JsonFrame("CANCEL_ORDER", request_id, TRUE, [order_id |-> order_id])

StreamFrames ==
    {NotJson, PingFrame("r1"), SubscribeFrame("r2"), PlaceOrderFrame("r3", "BUY"),
     PlaceOrderFrame("r4", "SELL"), CancelOrderFrame("r5", 1)}

\* one iteration of `async for msg in ws` for a TEXT frame of session_id
HandleWebsocketMessage(session_id, frame, in_draws, out_draws) ==
    /\ frames_handled < MaxFrames
    /\ session_id \in DOMAIN subscriptions
    /\ \E processed_msg \in {inject_inbound(injector, frame, in_draws)} :
       \E response \in
              {IF processed_msg.out = NoMessage
               THEN Handled(NoMessage, Engine, subscriptions)
               ELSE route(handlers, processed_msg.out, session_id, Engine,
                          default_balance, subscriptions)} :
       \E final_message \in
              {IF response.reply = NoMessage
               THEN [injector |-> processed_msg.injector, strategy |-> silent,
                     processed |-> NoMessage, out |-> NoMessage, calls |-> <<>>]
               ELSE apply_outbound_failures(processed_msg.injector, silent,
                                            serialize_message(response.reply),
                                            session_id, out_draws)} :
           /\ injector' = final_message.injector
           /\ silent' = final_message.strategy
           /\ subscriptions' = response.subs
           /\ all_orders' = response.eng.all_orders
           /\ orderbooks' = response.eng.orderbooks
           /\ fills' = response.eng.fills
           /\ last_prices' = response.eng.last_prices
           /\ accounts' = response.eng.accounts
           /\ frames_handled' = frames_handled + 1
           /\ last_handled' =
                  [session_id |-> session_id, frame |-> frame,
                   inbound |-> processed_msg.out, reply |-> response.reply,
                   sent |-> final_message.out]
           /\ silent_offered' =
                  IF silent # NoSilent /\ final_message.processed # NoMessage
                  THEN [silent_offered EXCEPT ![session_id] =
                           Append(@, [type |-> response.reply.type,
                                      delivered |-> final_message.out # NoMessage])]
                  ELSE silent_offered
    /\ UNCHANGED <<recovery_vars, strategy_vars, client_vars, inflight, default_balance, handlers, generators, ticker_produced, ticker_sent,
                   ticks, broadcast_errors, broadcasting, tracker_vars, limiter_vars>>

\* SilentConnectionStrategy.reset
SilentReset ==
    /\ silent # NoSilent
    /\ silent.message_count > 0
    /\ silent' = silent_reset(silent)
    /\ silent_offered' = [x \in Sessions |-> <<>>]
    /\ UNCHANGED <<recovery_vars, strategy_vars, client_vars, inflight, engine_vars, ticker_vars, tracker_vars, limiter_vars, injector,
                   handlers, frames_handled, last_handled>>

\* MessageRouter.route on its own, for the router of `handlers`
Route(session_id, frame) ==
    /\ frames_handled < MaxFrames
    /\ \E response \in {route(handlers, frame, session_id, Engine, default_balance,
                               subscriptions)} :
           /\ subscriptions' = response.subs
           /\ all_orders' = response.eng.all_orders
           /\ orderbooks' = response.eng.orderbooks
           /\ fills' = response.eng.fills
           /\ last_prices' = response.eng.last_prices
           /\ accounts' = response.eng.accounts
           /\ frames_handled' = frames_handled + 1
           /\ last_handled' =
                  [session_id |-> session_id, frame |-> frame, inbound |-> frame,
                   reply |-> response.reply, sent |-> NoMessage]
    /\ UNCHANGED <<recovery_vars, strategy_vars, client_vars, inflight, default_balance, handlers, generators, ticker_produced, ticker_sent,
                   ticks, broadcast_errors, broadcasting, tracker_vars, limiter_vars, injector, silent,
                   silent_offered>>

\* the failure configurations of the model: none, and drop_messages inbound
\* with corrupt_messages outbound
InjectorConfigs ==
    {[NewInjector(<<>>, <<>>) EXCEPT !.enabled = FALSE],
     NewInjector(<<DropMessageStrategy(50)>>, <<CorruptMessageStrategy(50)>>)}

SilentConfigs ==
    {NoSilent} \cup { SilentConnectionStrategy(TRUE, k) : k \in 0..MaxAfter }

StreamInit ==
    /\ EngineIdle
    /\ ClientIdle
    /\ StrategyIdle
    /\ RecoveryIdle
    /\ inflight = [slot \in Slots |-> NoInflight]
    /\ TickerIdle
    /\ TrackerIdle
    /\ LimiterIdle
    /\ injector \in InjectorConfigs
    /\ silent \in SilentConfigs
    /\ handlers = ServerHandlers
    /\ frames_handled = 0
    /\ last_handled = NoFrame
    /\ silent_offered = [x \in Sessions |-> <<>>]

StreamNext ==
    \/ \E session_id \in Sessions, frame \in StreamFrames :
          \E in_draws \in Draws(injector.inbound_strategies),
             out_draws \in Draws(injector.outbound_strategies) :
                HandleWebsocketMessage(session_id, frame, in_draws, out_draws)
    \/ SilentReset

StreamSpec == StreamInit /\ [][StreamNext]_vars

\* ---- message_router.py on its own ------------------------------------------
\* the frames given to the router: those of the stream, and frames with an
\* unknown type, a server-side type, fields that do not validate, no type,
\* and the remaining order and subscription requests
RouterFrames ==
    StreamFrames \cup
    {JsonFrame("FOO", "r6", TRUE, NoBody), JsonFrame("PONG", "r7", TRUE, NoBody),
     JsonFrame("PLACE_ORDER", "r8", FALSE, NoBody), JsonFrame(NoType, "r9", TRUE, NoBody),
     JsonFrame("UNSUBSCRIBE", "r10", TRUE, [channel |-> "TICKER", symbol |-> "BTC/USD"]),
     JsonFrame("GET_ORDER", "r11", TRUE, [order_id |-> 1]),
     JsonFrame("GET_ORDERS", "r12", TRUE, NoBody)}

\* register_handler: the server's table, an empty router, the server's table
\* with a HeartbeatHandler for PING, and the unit tests' handler that raises
Registries ==
    {ServerHandlers,
     [t \in {} |-> ""],
     [t \in (DOMAIN ServerHandlers) \cup {"PING"} |->
         IF t = "PING" THEN "HeartbeatHandler" ELSE ServerHandlers[t]],
     [t \in ClientTypes |-> "MockHandler"]}

RouterInit ==
    /\ EngineIdle
    /\ ClientIdle
    /\ StrategyIdle
    /\ RecoveryIdle
    /\ inflight = [slot \in Slots |-> NoInflight]
    /\ TickerIdle
    /\ TrackerIdle
    /\ LimiterIdle
    /\ injector = [NewInjector(<<>>, <<>>) EXCEPT !.enabled = FALSE]
    /\ silent = NoSilent
    /\ handlers \in Registries
    /\ frames_handled = 0
    /\ last_handled = NoFrame
    /\ silent_offered = [x \in Sessions |-> <<>>]

RouterNext ==
    \E session_id \in Sessions, frame \in RouterFrames : Route(session_id, frame)

RouterSpec == RouterInit /\ [][RouterNext]_vars

\* ---- failure_injector.py on its own ----------------------------------------
MaxChain == 3

\* the strategies a chain of the model is made of
ChainStrategies ==
    {DropMessageStrategy(50), DuplicateMessageStrategy(50), CorruptMessageStrategy(50)}

\* add_inbound_strategy for up to MaxChain strategies, in any order
Chains ==
    UNION { [1..n -> ChainStrategies] : n \in 0..MaxChain }

\* FailureInjector.inject_inbound for one frame
InjectInbound(frame, draws) ==
    /\ frames_handled < MaxFrames
    /\ \E r \in {inject_inbound(injector, frame, draws)} :
           /\ injector' = r.injector
           /\ last_handled' = [NoFrame EXCEPT !.frame = frame, !.inbound = r.out]
    /\ frames_handled' = frames_handled + 1
    /\ UNCHANGED <<recovery_vars, strategy_vars, client_vars, inflight, engine_vars, ticker_vars, tracker_vars, limiter_vars, silent,
                   handlers, silent_offered>>

\* FailureInjector.inject_outbound for one frame
InjectOutbound(frame, draws) ==
    /\ frames_handled < MaxFrames
    /\ \E r \in {inject_outbound(injector, frame, draws)} :
           /\ injector' = r.injector
           /\ last_handled' = [NoFrame EXCEPT !.frame = frame, !.sent = r.out]
    /\ frames_handled' = frames_handled + 1
    /\ UNCHANGED <<recovery_vars, strategy_vars, client_vars, inflight, engine_vars, ticker_vars, tracker_vars, limiter_vars, silent,
                   handlers, silent_offered>>

InjectorInit ==
    /\ EngineIdle
    /\ ClientIdle
    /\ StrategyIdle
    /\ RecoveryIdle
    /\ inflight = [slot \in Slots |-> NoInflight]
    /\ TickerIdle
    /\ TrackerIdle
    /\ LimiterIdle
    /\ \E enabled \in BOOLEAN, inbound \in Chains :
           injector = [NewInjector(inbound,
                                   <<DuplicateMessageStrategy(50),
                                     CorruptMessageStrategy(50)>>)
                          EXCEPT !.enabled = enabled]
    /\ silent = NoSilent
    /\ handlers = ServerHandlers
    /\ frames_handled = 0
    /\ last_handled = NoFrame
    /\ silent_offered = [x \in Sessions |-> <<>>]

InjectorNext ==
    \/ \E frame \in {NotJson, PingFrame("r1")} :
          \E draws \in Draws(injector.inbound_strategies) : InjectInbound(frame, draws)
    \/ \E frame \in {serialize_message(PongMessage("r1"))} :
          \E draws \in Draws(injector.outbound_strategies) : InjectOutbound(frame, draws)

InjectorSpec == InjectorInit /\ [][InjectorNext]_vars

\* ---- failures/strategies.py: one strategy on its own -------------------------
MaxOffered == 4

MaxWindow == 3

MaxClock == 5

\* min_interval of the throttle of the model, in ticks
MinInterval == 2

\* a frame of a session
FrameOf(session_id) == [from |-> session_id, body |-> "frame"]

\* what apply or flush returned, in which session's call, and when
Emission(session_id, frame) == [session_id |-> session_id, frame |-> frame, at |-> clock]

\* apply of a ReorderMessagesStrategy or a DuplicateMessageStrategy for a
\* frame of the session: neither awaits
StrategyApply(session_id, low, index) ==
    /\ tested.kind \in {"ReorderMessagesStrategy", "DuplicateMessageStrategy"}
    /\ Len(offered) < MaxOffered
    /\ tested.kind = "ReorderMessagesStrategy" => ~low /\ index < tested.window_size
    /\ tested.kind = "DuplicateMessageStrategy" =>
          index = 0 /\ (low => tested.probability \notin {0, 100})
    /\ \E r \in {IF tested.kind = "ReorderMessagesStrategy"
                  THEN reorder_apply(tested, FrameOf(session_id), index)
                  ELSE strategy_apply(tested, FrameOf(session_id), low)} :
          /\ tested' = r.strategy
          /\ emitted' = IF r.out = NoMessage THEN emitted
                        ELSE Append(emitted, Emission(session_id, r.out))
    /\ offered' = Append(offered, FrameOf(session_id))
    /\ UNCHANGED <<recovery_vars, engine_vars, ticker_vars, tracker_vars, limiter_vars,
                   stream_vars, inflight, client_vars, sleeping, clock>>

\* ReorderMessagesStrategy.flush
StrategyFlush ==
    /\ tested.kind = "ReorderMessagesStrategy"
    /\ \E r \in {reorder_flush(tested)} :
          /\ tested' = r.strategy
          /\ emitted' = emitted \o [i \in 1..Len(r.out) |-> Emission("flush", r.out[i])]
    /\ UNCHANGED <<recovery_vars, engine_vars, ticker_vars, tracker_vars, limiter_vars,
                   stream_vars, inflight, client_vars, offered, sleeping, clock>>

\* ThrottleMessageStrategy.apply in the handler of a session, up to its
\* await or, without one, to its return
ThrottleApply(session_id) ==
    /\ tested.kind = "ThrottleMessageStrategy"
    /\ Len(offered) < MaxOffered
    /\ sleeping[session_id] = NoMessage
    /\ offered' = Append(offered, FrameOf(session_id))
    /\ \E r \in {throttle_enter(tested, clock)} :
          IF r.delay > 0
          THEN /\ tested' = r.strategy
               /\ sleeping' = [sleeping EXCEPT ![session_id] =
                                  [frame |-> FrameOf(session_id), wake |-> clock + r.delay]]
               /\ emitted' = emitted
          ELSE /\ tested' = throttle_leave(r.strategy, clock)
               /\ emitted' = Append(emitted, Emission(session_id, FrameOf(session_id)))
               /\ sleeping' = sleeping
    /\ UNCHANGED <<recovery_vars, engine_vars, ticker_vars, tracker_vars, limiter_vars,
                   stream_vars, inflight, client_vars, clock>>

\* asyncio.sleep(delay) of a session's call returns, no earlier than asked
ThrottleWake(session_id) ==
    /\ tested.kind = "ThrottleMessageStrategy"
    /\ sleeping[session_id] # NoMessage
    /\ clock >= sleeping[session_id].wake
    /\ tested' = throttle_leave(tested, clock)
    /\ emitted' = Append(emitted, Emission(session_id, sleeping[session_id].frame))
    /\ sleeping' = [sleeping EXCEPT ![session_id] = NoMessage]
    /\ UNCHANGED <<recovery_vars, engine_vars, ticker_vars, tracker_vars, limiter_vars,
                   stream_vars, inflight, client_vars, offered, clock>>

\* time passes
StrategyTick ==
    /\ tested.kind = "ThrottleMessageStrategy"
    /\ clock < MaxClock
    /\ clock' = clock + 1
    /\ UNCHANGED <<recovery_vars, engine_vars, ticker_vars, tracker_vars, limiter_vars,
                   stream_vars, inflight, client_vars, tested, offered, emitted, sleeping>>

\* a strategy as the server or a test constructs it; time.time() is far
\* from the initial last_message_time of 0.0
StrategyInit ==
    /\ EngineIdle
    /\ TickerIdle
    /\ TrackerIdle
    /\ LimiterIdle
    /\ StreamIdle
    /\ ClientIdle
    /\ RecoveryIdle
    /\ tested \in { ReorderMessagesStrategy(w) : w \in 2..MaxWindow }
                    \cup {DuplicateMessageStrategy(50), DuplicateMessageStrategy(100),
                          ThrottleMessageStrategy(MinInterval)}
    /\ offered = <<>>
    /\ emitted = <<>>
    /\ sleeping = [x \in Sessions |-> NoMessage]
    /\ clock = MinInterval

StrategyNext ==
    \/ \E session_id \in Sessions, low \in BOOLEAN, index \in 0..(MaxWindow - 1) :
          StrategyApply(session_id, low, index)
    \/ StrategyFlush
    \/ \E session_id \in Sessions : ThrottleApply(session_id)
    \/ \E session_id \in Sessions : ThrottleWake(session_id)
    \/ StrategyTick

StrategySpec == StrategyInit /\ [][StrategyNext]_vars

\* ---- the calls the model makes --------------------------------------------
Sides == {"BUY", "SELL"}

OrderTypes == {"LIMIT", "MARKET"}

TimeInForces == {"GTC", "IOC", "FOK"}

\* The requests drawn: every LIMIT order; MARKET orders with the default time
\* in force (place_order reads it for LIMIT only) and with no price or a
\* stray one.
Requests ==
    { r \in [session_id : Sessions, symbol : Symbols \cup {UnknownSymbol},
             side : Sides, order_type : OrderTypes, quantity : Quantities,
             price : {NoPrice} \cup Prices, time_in_force : TimeInForces] :
        /\ validate_order(r.order_type, r.price, r.quantity)
        /\ (r.order_type = "MARKET" =>
                r.time_in_force = "GTC" /\ r.price \in {NoPrice, MaxPrice}) }

CanPlace == Len(all_orders) < MaxOrders

Becomes(eng) ==
    /\ all_orders' = eng.all_orders
    /\ orderbooks' = eng.orderbooks
    /\ fills' = eng.fills
    /\ last_prices' = eng.last_prices
    /\ accounts' = eng.accounts
    /\ UNCHANGED <<recovery_vars, strategy_vars, client_vars, stream_vars, default_balance, ticker_vars, tracker_vars,
                   limiter_vars>>

PlaceOrder(req) ==
    /\ CanPlace
    /\ Becomes(place_order(Engine, default_balance, req).eng)
    /\ UNCHANGED inflight

CancelOrder(session_id, order_id) ==
    /\ session_id \in Sessions
    /\ Becomes(cancel_order(Engine, session_id, order_id).eng)
    /\ UNCHANGED inflight

\* ExchangeEngine.__init__ with a freshly built AccountManager
Init ==
    /\ all_orders = <<>>
    /\ orderbooks = [s \in Symbols |-> NewOrderBook(s)]
    /\ fills = <<>>
    /\ last_prices = [s \in Symbols |-> NoPrice]
    /\ accounts = [s \in {} |-> NewAccount(s, DecimalBalance)]
    /\ default_balance \in {DecimalBalance, StrBalance}
    /\ TickerIdle
    /\ TrackerIdle
    /\ LimiterIdle
    /\ StreamIdle
    /\ ClientIdle
    /\ StrategyIdle
    /\ RecoveryIdle

Next ==
    \/ \E req \in Requests : PlaceOrder(req)
    \/ \E session_id \in Sessions, order_id \in 1..MaxOrders :
          CancelOrder(session_id, order_id)

Spec == Init /\ [][Next]_vars

\* faulty variant of place_order_awaits: place_order yields to the event loop
\* when _match_order has returned
place_order_awaits_after_match == {"match"}

\* the awaits between the first and the last statement of
\* ExchangeEngine.place_order: it is a plain `def`, and so are _match_order,
\* _execute_fill and OrderBook.add_order
place_order_awaits == {}

\* the call of the engine a handler has read but not made yet, as a whole
CompleteCall(eng, balance, call) ==
    IF call.kind = "cancel"
    THEN cancel_order(eng, call.req.session_id, call.order_id).eng
    ELSE place_order(eng, balance, call.req).eng

\* a PLACE_ORDER frame or a POST /api/v1/orders of the slot's session
InflightPlace(slot, side, quantity, price) ==
    [kind |-> "place", pc |-> "received",
     req |-> [session_id |-> slot.session_id, symbol |-> "BTC/USD", side |-> side,
              order_type |-> "LIMIT", quantity |-> quantity, price |-> price,
              time_in_force |-> "GTC"],
     order_id |-> NoOrder, got |-> <<>>]

\* a CANCEL_ORDER frame or a DELETE /api/v1/orders/{order_id}
InflightCancel(slot, order_id) ==
    [kind |-> "cancel", pc |-> "received",
     req |-> [session_id |-> slot.session_id], order_id |-> order_id, got |-> <<>>]

\* place_order up to the return of _match_order, for a request it accepts
place_order_matched(eng, balance, req) ==
    LET order_id == Len(eng.all_orders) + 1
        order == NewOrder(order_id, req.session_id, req.symbol, req.side,
                          req.order_type, req.price, req.quantity, req.time_in_force)
        e1 == [eng EXCEPT !.accounts = get_or_create_account(@, req.session_id, balance),
                          !.all_orders = Append(@, [order EXCEPT !.status = "OPEN"])]
    IN  MatchOrder(e1, order_id, <<>>)

\* a handler reads a request: the frame has passed inject_inbound and
\* parse_message, the REST body has passed _check_rate_limit and request.json
Receive(slot, call) ==
    /\ slot \in DOMAIN inflight
    /\ inflight[slot].pc = "idle"
    /\ inflight' = [inflight EXCEPT ![slot] = call]
    /\ UNCHANGED <<recovery_vars, strategy_vars, engine_vars, ticker_vars, tracker_vars, limiter_vars, stream_vars,
                   client_vars>>

\* the handler runs up to its next await: through the whole of
\* exchange.place_order or cancel_order, or from one await inside place_order
\* to the next
EngineCall(slot) ==
    /\ slot \in DOMAIN inflight
    /\ inflight[slot].pc \in {"received", "matched"}
    /\ inflight[slot].kind = "place" => CanPlace \/ inflight[slot].pc = "matched"
    /\ \E call \in {inflight[slot]} :
          IF call.kind = "cancel"
          THEN /\ Becomes(cancel_order(Engine, call.req.session_id, call.order_id).eng)
               /\ inflight' = [inflight EXCEPT ![slot].pc = "called"]
          ELSE IF call.pc = "matched"
          THEN /\ Becomes(AfterMatch(Engine, call.order_id, call.got).eng)
               /\ inflight' = [inflight EXCEPT ![slot].pc = "called"]
          ELSE IF "match" \in place_order_awaits
                  /\ place_order(Engine, default_balance, call.req).ret.result = "ok"
          THEN \E m \in {place_order_matched(Engine, default_balance, call.req)} :
                  /\ Becomes(m.eng)
                  /\ inflight' = [inflight EXCEPT ![slot].pc = "matched",
                                                  ![slot].order_id = Len(all_orders) + 1,
                                                  ![slot].got = m.fills]
          ELSE \E r \in {place_order(Engine, default_balance, call.req)} :
                  /\ Becomes(r.eng)
                  /\ inflight' = [inflight EXCEPT ![slot].pc = "called",
                                                  ![slot].order_id = r.ret.order_id,
                                                  ![slot].got = r.ret.fills]

\* the reply has passed the outbound pipeline and was sent
Respond(slot) ==
    /\ slot \in DOMAIN inflight
    /\ inflight[slot].pc = "called"
    /\ inflight' = [inflight EXCEPT ![slot] = NoInflight]
    /\ UNCHANGED <<recovery_vars, strategy_vars, engine_vars, ticker_vars, tracker_vars, limiter_vars, stream_vars,
                   client_vars>>

ConcurrentInit ==
    /\ EngineIdle
    /\ TickerIdle
    /\ TrackerIdle
    /\ LimiterIdle
    /\ StreamIdle
    /\ ClientIdle
    /\ StrategyIdle
    /\ RecoveryIdle

ConcurrentNext ==
    \/ \E slot \in Slots :
          \/ \E side \in Sides, quantity \in Quantities :
                Receive(slot, InflightPlace(slot, side, quantity, 1))
          \/ \E order_id \in 1..MaxOrders : Receive(slot, InflightCancel(slot, order_id))
    \/ \E slot \in Slots : EngineCall(slot)
    \/ \E slot \in Slots : Respond(slot)

ConcurrentSpec == ConcurrentInit /\ [][ConcurrentNext]_vars

\* ---- the client's steps ---------------------------------------------------
MaxPings == 2

MaxConns == 2

\* on_health_change as the heartbeat calls it, with the connection it pings
Delivered(notify, ws) ==
    IF notify = <<>> THEN health_changes
    ELSE Append(health_changes, [healthy |-> notify[1], ws |-> ws])

\* the application connects
ConnectWs(connects) ==
    /\ network.recovery = "idle"
    /\ network.ws = NoWs
    /\ network.conns < MaxConns
    /\ \E r \in {connect_ws(network, heartbeat, connects)} :
           /\ network' = r.net
           /\ heartbeat' = r.hb
    /\ UNCHANGED <<recovery_vars, strategy_vars, engine_vars, ticker_vars, tracker_vars, limiter_vars, stream_vars,
                   inflight,
                   hb_timers, ping_log, health_changes, recovery_log>>

\* send_ws_message for a SUBSCRIBE or an UNSUBSCRIBE: the pair is remembered
\* or forgotten whether or not the frame can be sent
SendWsMessage(type, pair) ==
    /\ network' = [network EXCEPT !.subscriptions =
                      IF type = "SUBSCRIBE" THEN @ \cup {pair} ELSE @ \ {pair}]
    /\ UNCHANGED <<recovery_vars, strategy_vars, engine_vars, ticker_vars, tracker_vars, limiter_vars, stream_vars,
                   inflight,
                   heartbeat, hb_timers, ping_log, health_changes, recovery_log>>

\* _heartbeat_loop wakes from its sleep and sends a PING
HeartbeatLoop(sends) ==
    /\ heartbeat.loop_alive
    /\ Len(ping_log) < MaxPings
    /\ \E r \in {heartbeat_loop(heartbeat, Len(ping_log) + 1, network.open, sends)} :
           /\ heartbeat' = r.hb
           /\ network' = on_heartbeat_health_change(network, r.notify)
           /\ health_changes' = Delivered(r.notify, heartbeat.ws)
           /\ hb_timers' = IF r.sent THEN hb_timers \cup {Len(ping_log) + 1}
                           ELSE hb_timers
           /\ ping_log' = IF r.sent
                          THEN Append(ping_log, [ws |-> heartbeat.ws, pongs |-> 0,
                                                 timed_out |-> FALSE])
                          ELSE ping_log
    /\ UNCHANGED <<recovery_vars, strategy_vars, engine_vars, ticker_vars, tracker_vars, limiter_vars, stream_vars,
                   inflight,
                   recovery_log>>

\* receive_ws_message reads a PONG for a PING sent on this connection
ReceivePong(request_id) ==
    /\ network.ws # NoWs
    /\ network.ws = network.open
    /\ request_id \in 1..Len(ping_log)
    /\ ping_log[request_id].ws = network.ws
    /\ ping_log[request_id].pongs = 0
    /\ \E r \in {handle_pong(heartbeat, request_id)} :
           /\ heartbeat' = r.hb
           /\ network' = on_heartbeat_health_change(network, r.notify)
           /\ health_changes' = Delivered(r.notify, heartbeat.ws)
    /\ ping_log' = [ping_log EXCEPT ![request_id].pongs = @ + 1]
    /\ UNCHANGED <<recovery_vars, strategy_vars, engine_vars, ticker_vars, tracker_vars, limiter_vars, stream_vars,
                   inflight,
                   hb_timers, recovery_log>>

\* the task of _check_pong_timeout wakes from its sleep
CheckPongTimeout(request_id) ==
    /\ request_id \in hb_timers
    /\ \E r \in {check_pong_timeout(heartbeat, request_id)} :
           /\ heartbeat' = r.hb
           /\ network' = on_heartbeat_health_change(network, r.notify)
           /\ health_changes' = Delivered(r.notify, heartbeat.ws)
    /\ hb_timers' = hb_timers \ {request_id}
    /\ ping_log' = [ping_log EXCEPT ![request_id].timed_out =
                       request_id \in heartbeat.pending]
    /\ UNCHANGED <<recovery_vars, strategy_vars, engine_vars, ticker_vars, tracker_vars, limiter_vars, stream_vars,
                   inflight,
                   recovery_log>>

\* _monitor_ws_activity wakes up: it ends when the connection is marked
\* down, and with the stream idle for longer than ws_idle_timeout it runs
\* _handle_silent_connection up to the end of disconnect_ws
MonitorWsActivity ==
    /\ network.monitor
    /\ network.recovery = "idle"
    /\ IF ~network.ws_connected
       THEN /\ network' = [network EXCEPT !.monitor = FALSE]
            /\ UNCHANGED <<heartbeat, recovery_log>>
       ELSE \E r \in {disconnect_ws(network, heartbeat)} :
               /\ network' = [r.net EXCEPT !.recovery = "backfill"]
               /\ heartbeat' = r.hb
               /\ recovery_log' = <<[kind |-> "teardown"]>>
    /\ UNCHANGED <<recovery_vars, strategy_vars, engine_vars, ticker_vars, tracker_vars, limiter_vars, stream_vars,
                   inflight,
                   hb_timers, ping_log, health_changes>>

\* one step of _handle_silent_connection: disconnect_ws, then
\* _backfill_price_history, then the iterations of _attempt_reconnect, each
\* a connect_ws followed by the re-subscription or by the sleep
HandleSilentConnection(connects) ==
    /\ network.recovery # "idle"
    /\ IF network.recovery = "disconnect"
       THEN \E r \in {disconnect_ws(network, heartbeat)} :
               /\ network' = [r.net EXCEPT !.recovery = "backfill"]
               /\ heartbeat' = r.hb
               /\ recovery_log' = <<[kind |-> "teardown"]>>
       ELSE IF network.recovery = "backfill"
       THEN /\ network' = [network EXCEPT !.recovery = "attempt", !.attempts = 0,
                                          !.delay = ReconnectInitialBackoff]
            /\ heartbeat' = heartbeat
            /\ recovery_log' =
                   Append(recovery_log, [kind |-> "backfill",
                                         symbols |-> backfill_price_history(network),
                                         remembered |-> network.subscriptions])
       ELSE IF network.recovery = "attempt"
       THEN /\ connects => network.conns < MaxConns
            /\ \E r \in {connect_ws(network, heartbeat, connects)} :
                   /\ heartbeat' = r.hb
                   /\ IF r.ret
                      THEN /\ network' =
                                  [r.net EXCEPT !.attempts = @ + 1,
                                                !.connection_healthy = TRUE,
                                                !.recovery = "idle"]
                           /\ recovery_log' =
                                  recovery_log \o
                                  <<[kind |-> "attempt", connected |-> TRUE],
                                    [kind |-> "subscribe",
                                     pairs |-> resubscribe_channels(r.net),
                                     remembered |-> network.subscriptions]>>
                      ELSE /\ network' = [r.net EXCEPT !.attempts = @ + 1,
                                                       !.recovery = "sleep"]
                           /\ recovery_log' =
                                  Append(recovery_log,
                                         [kind |-> "attempt", connected |-> FALSE])
       ELSE /\ network' =
                   [network EXCEPT !.delay = NextDelay(@),
                                   !.recovery = IF network.attempts < ReconnectMaxAttempts
                                                THEN "attempt" ELSE "idle"]
            /\ heartbeat' = heartbeat
            /\ recovery_log' =
                   Append(recovery_log, [kind |-> "sleep", delay |-> network.delay])
    /\ UNCHANGED <<recovery_vars, strategy_vars, engine_vars, ticker_vars, tracker_vars, limiter_vars, stream_vars,
                   inflight,
                   hb_timers, ping_log, health_changes>>

ClientInit ==
    /\ EngineIdle
    /\ TickerIdle
    /\ TrackerIdle
    /\ LimiterIdle
    /\ StreamIdle
    /\ ClientIdle
    /\ StrategyIdle
    /\ RecoveryIdle

ClientNext ==
    \/ \E connects \in BOOLEAN : ConnectWs(connects)
    \/ \E type \in {"SUBSCRIBE", "UNSUBSCRIBE"}, pair \in Pairs : SendWsMessage(type, pair)
    \/ \E sends \in BOOLEAN : HeartbeatLoop(sends)
    \/ \E request_id \in 1..MaxPings : ReceivePong(request_id)
    \/ \E request_id \in 1..MaxPings : CheckPongTimeout(request_id)
    \/ MonitorWsActivity
    \/ \E connects \in BOOLEAN : HandleSilentConnection(connects)

ClientSpec == ClientInit /\ [][ClientNext]_vars

\* ---- the detectors of one connection and the recoveries they start -------
\* the task of _check_pong_timeout wakes: with the PING still pending the
\* heartbeat turns unhealthy and _on_heartbeat_health_change creates the
\* recovery task unless _connection_recovery_task holds one
PongTimeoutFires ==
    /\ tasks["timeout"].pc = "sleep"
    /\ IF manager.pending /\ manager.healthy
       THEN /\ manager' = [manager EXCEPT !.pending = FALSE, !.healthy = FALSE,
                                         !.connection_healthy = FALSE,
                                         !.ws_connected = FALSE,
                                         !.connection_recovery_task = TRUE]
            /\ tasks' = [tasks EXCEPT !["timeout"] = TaskAt("done"),
                                      !["recovery"] =
                                          IF manager.connection_recovery_task THEN @
                                          ELSE TaskAt("created")]
       ELSE /\ manager' = [manager EXCEPT !.pending = FALSE]
            /\ tasks' = [tasks EXCEPT !["timeout"] = TaskAt("done")]
    /\ UNCHANGED <<engine_vars, ticker_vars, tracker_vars, limiter_vars, stream_vars,
                   inflight, client_vars, strategy_vars>>

\* receive_ws_message reads the PONG of the pending PING
PongArrives ==
    /\ tasks["receive"].pc = "receive"
    /\ manager.ws = 1
    /\ manager.pending
    /\ manager' = [manager EXCEPT !.pending = FALSE]
    /\ UNCHANGED <<engine_vars, ticker_vars, tracker_vars, limiter_vars, stream_vars,
                   inflight, client_vars, strategy_vars, tasks>>

\* the recovery task runs for the first time
RecoveryTaskStarts ==
    /\ tasks["recovery"].pc = "created"
    /\ \E r \in {handle_silent_connection(manager, tasks, "recovery")} :
           /\ manager' = r.m
           /\ tasks' = r.t
    /\ UNCHANGED <<engine_vars, ticker_vars, tracker_vars, limiter_vars, stream_vars,
                   inflight, client_vars, strategy_vars>>

\* _monitor_ws_activity wakes from its sleep: it ends when the connection
\* is marked down, and runs _handle_silent_connection when the stream has
\* been idle for longer than ws_idle_timeout
MonitorFindsIdle ==
    /\ tasks["monitor"].pc = "sleep"
    /\ IF ~manager.ws_connected
       THEN /\ tasks' = [tasks EXCEPT !["monitor"] = TaskAt("done")]
            /\ manager' = manager
       ELSE \E r \in {handle_silent_connection(manager, tasks, "monitor")} :
               /\ manager' = r.m
               /\ tasks' = r.t
    /\ UNCHANGED <<engine_vars, ticker_vars, tracker_vars, limiter_vars, stream_vars,
                   inflight, client_vars, strategy_vars>>

\* receive_ws_message reads CLOSED from the websocket and runs
\* _handle_silent_connection
ReceiveFindsClosed ==
    /\ tasks["receive"].pc = "receive"
    /\ manager.ws # NoWs
    /\ \E r \in {handle_silent_connection([manager EXCEPT !.ws_connected = FALSE],
                                          tasks, "receive")} :
           /\ manager' = r.m
           /\ tasks' = r.t
    /\ UNCHANGED <<engine_vars, ticker_vars, tracker_vars, limiter_vars, stream_vars,
                   inflight, client_vars, strategy_vars>>

\* the monitor task a run waits for in _stop_activity_monitor has ended:
\* the run goes on to the first connect_ws of _attempt_reconnect
MonitorAwaited(runner) ==
    /\ tasks[runner].pc = "await_monitor"
    /\ \/ tasks[runner].awaited = "later"
       \/ runner = "monitor"
       \/ tasks["monitor"].pc = "done"
    /\ manager' = disconnect_ws_rest(manager)
    /\ tasks' = [tasks EXCEPT ![runner] =
                    [pc |-> "reconnect", attempts |-> 1, awaited |-> "none"]]
    /\ UNCHANGED <<engine_vars, ticker_vars, tracker_vars, limiter_vars, stream_vars,
                   inflight, client_vars, strategy_vars>>

\* ws_connect of a run's connect_ws returns or raises: connected, the run
\* re-subscribes and ends; otherwise it sleeps
ReconnectReturns(runner, connects) ==
    /\ tasks[runner].pc = "reconnect"
    /\ IF connects
       THEN /\ manager' =
                   [manager EXCEPT !.ws = manager.conns + 1, !.conns = @ + 1,
                                   !.ws_connected = TRUE,
                                   !.connection_healthy = TRUE,
                                   !.connection_recovery_task = FALSE,
                                   !.activity_monitor_task =
                                       IF MonitorAlive(manager, tasks) THEN @
                                       ELSE "later"]
            /\ tasks' = [tasks EXCEPT ![runner] = TaskAt("done")]
       ELSE /\ manager' = [manager EXCEPT !.ws_connected = FALSE]
            /\ tasks' = [tasks EXCEPT ![runner].pc = "backoff"]
    /\ UNCHANGED <<engine_vars, ticker_vars, tracker_vars, limiter_vars, stream_vars,
                   inflight, client_vars, strategy_vars>>

\* the sleep between two attempts of a run ends
BackoffEnds(runner) ==
    /\ tasks[runner].pc = "backoff"
    /\ IF tasks[runner].attempts < ReconnectMaxAttempts
       THEN /\ tasks' = [tasks EXCEPT ![runner].pc = "reconnect",
                                      ![runner].attempts = @ + 1]
            /\ manager' = manager
       ELSE /\ tasks' = [tasks EXCEPT ![runner] = TaskAt("done")]
            /\ manager' = [manager EXCEPT !.connection_recovery_task = FALSE]
    /\ UNCHANGED <<engine_vars, ticker_vars, tracker_vars, limiter_vars, stream_vars,
                   inflight, client_vars, strategy_vars>>

RecoveryInit ==
    /\ EngineIdle
    /\ TickerIdle
    /\ TrackerIdle
    /\ LimiterIdle
    /\ StreamIdle
    /\ ClientIdle
    /\ StrategyIdle
    /\ manager = ConnectedManager
    /\ tasks = [x \in Runners \cup {"timeout"} |->
                   IF x \in {"monitor", "timeout"} THEN TaskAt("sleep")
                   ELSE IF x = "receive" THEN TaskAt("receive")
                   ELSE TaskAt("none")]

RecoveryNext ==
    \/ PongTimeoutFires
    \/ PongArrives
    \/ RecoveryTaskStarts
    \/ MonitorFindsIdle
    \/ ReceiveFindsClosed
    \/ \E runner \in Runners : MonitorAwaited(runner)
    \/ \E runner \in Runners, connects \in BOOLEAN : ReconnectReturns(runner, connects)
    \/ \E runner \in Runners : BackoffEnds(runner)

RecoverySpec == RecoveryInit /\ [][RecoveryNext]_vars

\* ---- properties ------------------------------------------------------------
\* the ids resting in the book of a symbol, and the level an order rests in
Resting(book) == book.orders

LevelOf(book, o) == IF o.side = "BUY" THEN book.bids[o.price] ELSE book.asks[o.price]

\* the request that the next place_order call of the model may carry
PlaceRequests == { r \in Requests : r.symbol \in Symbols }

Placed(r) == place_order(Engine, default_balance, r)

\* C1: for every symbol, whenever the book has both a best bid and a best ask,
\* best_bid < best_ask: no call leaves the book crossed or locked.
C1_NeverCrossed ==
    \A s \in Symbols :
        (HasBestBid(orderbooks[s]) /\ HasBestAsk(orderbooks[s]))
            => get_best_bid(orderbooks[s]) < get_best_ask(orderbooks[s])

\* a two-sided book that has already traded
C1_Witness ==
    \E s \in Symbols :
        /\ HasBestBid(orderbooks[s]) /\ HasBestAsk(orderbooks[s])
        /\ last_prices[s] # NoPrice

\* n goes before m in price-time priority: same side, a strictly better price,
\* or the same price and an earlier arrival (ids are issued in arrival order)
Precedes(n, m) ==
    /\ n.order_id # m.order_id
    /\ n.symbol = m.symbol /\ n.side = m.side
    /\ \/ (m.side = "BUY" /\ n.price > m.price)
       \/ (m.side = "SELL" /\ n.price < m.price)
       \/ (n.price = m.price /\ n.order_id < m.order_id)

\* C2: price-time priority. Whenever a call gives a maker a fill, every order
\* that rested before it in price-time order (strictly better price, or same
\* price and inserted earlier) was filled completely by an earlier match of the
\* same call; a maker that is left partially filled is still the head of its
\* level.
C2_PriceTimePriority ==
    [][ \A i \in (Len(fills) + 1)..Len(fills') :
            fills'[i].is_maker =>
                LET m == all_orders[fills'[i].order_id]
                    book == orderbooks[m.symbol]
                    after == orderbooks'[m.symbol]
                IN  /\ m.order_id \in Resting(book)
                    /\ \A n_id \in Resting(book) :
                          Precedes(all_orders[n_id], m) =>
                             /\ remaining_quantity(all_orders'[n_id]) = 0
                             /\ \E j \in (Len(fills) + 1)..(i - 1) :
                                   fills'[j].is_maker /\ fills'[j].order_id = n_id
                    /\ remaining_quantity(all_orders'[m.order_id]) > 0 =>
                          /\ m.order_id \in Resting(after)
                          /\ LevelOf(after, m).orders[1] = m.order_id
      ]_vars

\* a partially filled maker at the head of a level with a later order behind it
C2_Witness ==
    \E s \in Symbols : \E id \in Resting(orderbooks[s]) :
        LET level == LevelOf(orderbooks[s], all_orders[id])
        IN  /\ all_orders[id].status = "PARTIALLY_FILLED"
            /\ Len(level.orders) >= 2
            /\ level.orders[1] = id

RECURSIVE TakerFilled(_, _, _)
\* what the taker fills fs[from], fs[from + 2], ..., below index upto add up to
TakerFilled(fs, from, upto) ==
    IF from >= upto THEN 0
    ELSE fs[from].quantity + TakerFilled(fs, from + 2, upto)

\* C3: every match fills min(taker.remaining, maker.remaining) at the maker's
\* resting price, appends a taker fill and a maker fill with that price and
\* quantity, and last_price becomes that price; a call without a match (a
\* place_order that matches nothing, a cancel_order) leaves last_price alone.
C3_MatchIsExact ==
    [][ LET n0 == Len(fills)
            n1 == Len(fills')
        IN  /\ n1 >= n0
            /\ SubSeq(fills', 1, n0) = fills
            /\ (n1 - n0) % 2 = 0
            /\ \A k \in 1..((n1 - n0) \div 2) :
                  LET tf == fills'[n0 + 2 * k - 1]
                      mf == fills'[n0 + 2 * k]
                      taker == all_orders'[tf.order_id]
                      maker == all_orders[mf.order_id]
                      taker_left == taker.quantity - TakerFilled(fills', n0 + 1, n0 + 2 * k - 1)
                  IN  /\ ~tf.is_maker /\ mf.is_maker
                      /\ tf.order_id = Len(all_orders) + 1
                      /\ mf.order_id \in Resting(orderbooks[maker.symbol])
                      /\ tf.quantity = Min(taker_left, remaining_quantity(maker))
                      /\ mf.quantity = tf.quantity
                      /\ tf.price = maker.price /\ mf.price = maker.price
                      /\ tf.session_id = taker.session_id
                      /\ mf.session_id = maker.session_id
            /\ n1 > n0 => last_prices' =
                            [last_prices EXCEPT ![fills'[n1].symbol] = fills'[n1].price]
            /\ n1 = n0 => last_prices' = last_prices
      ]_vars

\* a trade that left one of its two orders partially filled
C3_Witness ==
    /\ Len(fills) >= 2
    /\ \E s \in Symbols : last_prices[s] = fills[Len(fills)].price
    /\ \E id \in DOMAIN all_orders : all_orders[id].status = "PARTIALLY_FILLED"

\* C4: every order get_order hands out has 0 <= filled_quantity <= quantity
\* and is FILLED exactly when filled_quantity = quantity.
C4_FilledWithinQuantity ==
    \A session_id \in Sessions, order_id \in 1..MaxOrders :
        get_order(Engine, session_id, order_id) # NoOrder =>
            LET o == all_orders[get_order(Engine, session_id, order_id)]
            IN  /\ 0 <= o.filled_quantity
                /\ o.filled_quantity <= o.quantity
                /\ (o.status = "FILLED") <=> (o.filled_quantity = o.quantity)

\* one order filled completely and another one partially
C4_Witness ==
    /\ \E id \in DOMAIN all_orders :
          all_orders[id].status = "FILLED" /\ all_orders[id].quantity = MaxQty
    /\ \E id \in DOMAIN all_orders :
          /\ all_orders[id].status \in {"PARTIALLY_FILLED", "CANCELLED", "REJECTED"}
          /\ all_orders[id].filled_quantity > 0

\* the USD balance and the position a session has, with or without an account
BalanceOf(eng, balance, session_id) ==
    IF session_id \in DOMAIN eng.accounts
    THEN eng.accounts[session_id].balances["USD"].amount
    ELSE balance["USD"].amount

PositionOf(eng, session_id, symbol) ==
    IF session_id \in DOMAIN eng.accounts
    THEN get_position(eng.accounts[session_id], symbol).quantity
    ELSE 0

\* book depth, balances, positions, fills and last_price are the same in a and b
SameMarket(a, b) ==
    /\ \A s \in Symbols : get_depth(a.orderbooks[s]) = get_depth(b.orderbooks[s])
    /\ \A s \in Symbols : get_last_price(a, s) = get_last_price(b, s)
    /\ \A x \in Sessions :
          /\ get_fills(a, x) = get_fills(b, x)
          /\ BalanceOf(a, default_balance, x) = BalanceOf(b, default_balance, x)
          /\ \A s \in Symbols : PositionOf(a, x, s) = PositionOf(b, x, s)

\* C5: a FOK order that cannot be filled completely on arrival leaves book
\* depth, every resting order's filled quantity and status, all positions,
\* last_price and every session's get_fills as they were, and returns no fills.
C5_FOKLeavesNoTrace ==
    [][ /\ ( /\ Len(all_orders') = Len(all_orders) + 1
             /\ all_orders'[Len(all_orders')].order_type = "LIMIT"
             /\ all_orders'[Len(all_orders')].time_in_force = "FOK"
             /\ all_orders'[Len(all_orders')].status # "FILLED" )
           => /\ SameMarket(Engine', Engine)
              /\ \A k \in DOMAIN all_orders : all_orders'[k] = all_orders[k]
        /\ CanPlace =>
              \A r \in PlaceRequests :
                 (r.order_type = "LIMIT" /\ r.time_in_force = "FOK") =>
                    LET res == Placed(r)
                    IN  (res.ret.result = "ok"
                           /\ res.eng.all_orders[res.ret.order_id].status # "FILLED")
                        => res.ret.fills = <<>>
      ]_vars

RECURSIVE SumRemainingOf(_, _)
SumRemainingOf(ids, all) ==
    IF ids = {} THEN 0
    ELSE LET id == CHOOSE x \in ids : TRUE
         IN  remaining_quantity(all[id]) + SumRemainingOf(ids \ {id}, all)

RestingAt(book, side, price) ==
    { id \in Resting(book) :
        all_orders[id].side = side /\ all_orders[id].price = price }

\* C6: at every price level the quantity the depth reports is the sum of the
\* remaining quantities of the orders resting at that level.
C6_DepthIsSumOfRemaining ==
    \A s \in Symbols, side \in Sides, price \in Prices :
        get_volume_at_price(orderbooks[s], price, side)
            = SumRemainingOf(RestingAt(orderbooks[s], side, price), all_orders)

\* C7: a MARKET order is never left OPEN or PARTIALLY_FILLED and never rests
\* in the book once place_order has returned.
C7_MarketNeverLeftOpen ==
    \A id \in DOMAIN all_orders :
        all_orders[id].order_type = "MARKET" =>
            /\ all_orders[id].status \notin {"OPEN", "PARTIALLY_FILLED"}
            /\ id \notin Resting(orderbooks[all_orders[id].symbol])

RECURSIVE SumQuantity(_)
SumQuantity(fs) ==
    IF fs = <<>> THEN 0 ELSE Head(fs).quantity + SumQuantity(Tail(fs))

\* C8: when place_order returns for an IOC LIMIT order the order does not
\* rest; with no match it is CANCELLED and no fill is returned; after a
\* partial match it is CANCELLED and the fills made are returned and kept.
C8_IOCNeverRests ==
    /\ \A id \in DOMAIN all_orders :
          (all_orders[id].order_type = "LIMIT" /\ all_orders[id].time_in_force = "IOC")
              => id \notin Resting(orderbooks[all_orders[id].symbol])
    /\ CanPlace => \A r \in PlaceRequests :
          (r.order_type = "LIMIT" /\ r.time_in_force = "IOC") =>
              LET res == Placed(r)
                  id == Len(all_orders) + 1
                  o == res.eng.all_orders[id]
              IN  res.ret.result = "ok" =>
                    /\ id \notin Resting(res.eng.orderbooks[r.symbol])
                    /\ SumQuantity(res.ret.fills) = o.filled_quantity
                    /\ o.filled_quantity = 0 =>
                          o.status = "CANCELLED" /\ res.ret.fills = <<>>
                    /\ (0 < o.filled_quantity /\ o.filled_quantity < o.quantity) =>
                          /\ o.status = "CANCELLED"
                          /\ res.ret.fills # <<>>
                          /\ \A i \in 1..Len(res.ret.fills) :
                                InSeq(get_fills(res.eng, r.session_id), res.ret.fills[i])

\* an IOC order cancelled after a partial fill, whose fills are on record
C8_Witness ==
    \E id \in DOMAIN all_orders :
        /\ all_orders[id].order_type = "LIMIT"
        /\ all_orders[id].time_in_force = "IOC"
        /\ all_orders[id].status = "CANCELLED"
        /\ all_orders[id].filled_quantity > 0
        /\ \E i \in 1..Len(fills) : fills[i].order_id = id

\* C9: a BUY LIMIT order of quantity Q at price P is admitted exactly when the
\* session's USD balance is >= P * Q; SELL and MARKET orders are admitted
\* whatever the balance.
C9_BalanceAdmission ==
    CanPlace =>
        \A r \in PlaceRequests :
            LET admitted == Placed(r).ret.result = "ok"
                balance == BalanceOf(Engine, default_balance, r.session_id)
            IN  /\ (r.side = "BUY" /\ r.order_type = "LIMIT") =>
                      (admitted <=> balance >= r.price * r.quantity)
                /\ (r.side = "SELL" \/ r.order_type = "MARKET") => admitted

\* C10: a place_order refused for insufficient balance records the order under
\* its new id as REJECTED with nothing filled, tells the caller that id and the
\* reason, and leaves book, balances, positions, fills and last_price alone.
C10_RejectionReported ==
    CanPlace =>
        \A r \in PlaceRequests :
            LET res == Placed(r)
                id == Len(all_orders) + 1
            IN  (res.ret.result = "ValueError"
                    /\ res.ret.message = "Insufficient balance") =>
                    /\ Len(res.eng.all_orders) = id
                    /\ res.eng.all_orders[id].status = "REJECTED"
                    /\ res.eng.all_orders[id].filled_quantity = 0
                    /\ handle_place_order(res).order_id = id
                    /\ handle_place_order(res).message = "Insufficient balance"
                    /\ rest_place_order(res).order_id = id
                    /\ rest_place_order(res).error = "Insufficient balance"
                    /\ SameMarket(res.eng, Engine)
                    /\ \A k \in DOMAIN all_orders : res.eng.all_orders[k] = all_orders[k]

\* ---- cancelling ------------------------------------------------------------
TerminalStatuses == {"FILLED", "CANCELLED", "REJECTED"}

\* the ids in the FIFO lists of the price levels of a book
InLevels(book) ==
    { id \in 1..MaxOrders :
        \/ \E p \in DOMAIN book.bids : InSeq(book.bids[p].orders, id)
        \/ \E p \in DOMAIN book.asks : InSeq(book.asks[p].orders, id) }

Cancelled(session_id, order_id) == cancel_order(Engine, session_id, order_id)

\* C11: cancel_order raises and changes nothing when the id is unknown, the
\* order is another session's or the order is in a terminal status; otherwise
\* it takes the order out of the book, sets it CANCELLED and touches nothing
\* else.
C11_CancelRefusesOrCancels ==
    \A session_id \in Sessions, order_id \in 1..MaxOrders :
        LET c == Cancelled(session_id, order_id)
            refused == \/ order_id \notin DOMAIN all_orders
                       \/ all_orders[order_id].session_id # session_id
                       \/ all_orders[order_id].status \in TerminalStatuses
        IN  IF refused
            THEN c.ret.result = "ValueError" /\ c.eng = Engine
            ELSE LET symbol == all_orders[order_id].symbol
                 IN  /\ c.ret.result = "ok" /\ c.ret.order_id = order_id
                     /\ c.eng.all_orders[order_id] =
                            [all_orders[order_id] EXCEPT !.status = "CANCELLED"]
                     /\ \A id \in DOMAIN all_orders :
                            id # order_id => c.eng.all_orders[id] = all_orders[id]
                     /\ order_id \notin Resting(c.eng.orderbooks[symbol])
                     /\ order_id \notin InLevels(c.eng.orderbooks[symbol])
                     /\ Resting(c.eng.orderbooks[symbol]) =
                            Resting(orderbooks[symbol]) \ {order_id}
                     /\ c.eng.fills = fills /\ c.eng.last_prices = last_prices
                     /\ c.eng.accounts = accounts

\* a partially filled resting order was cancelled by its owner, and the order
\* that filled it is FILLED (a later cancel of either is refused)
C11_Witness ==
    /\ \E id \in DOMAIN all_orders :
          /\ all_orders[id].status = "CANCELLED"
          /\ all_orders[id].time_in_force = "GTC"
          /\ all_orders[id].filled_quantity > 0
    /\ \E id \in DOMAIN all_orders : all_orders[id].status = "FILLED"

RECURSIVE SumOrdered(_, _)
\* the ordered quantities of the orders ids
SumOrdered(ids, all) ==
    IF ids = <<>> THEN 0
    ELSE all[Head(ids)].quantity + SumOrdered(Tail(ids), all)

AllLevels(book) ==
    { book.bids[p] : p \in DOMAIN book.bids } \cup { book.asks[p] : p \in DOMAIN book.asks }

\* no CANCELLED order is in the book index or in a level, and what a level
\* reports is made up of quantities of the orders that are in it
CancelledOutOfBook ==
    \A s \in Symbols :
        /\ \A id \in DOMAIN all_orders :
              all_orders[id].status = "CANCELLED" =>
                 /\ id \notin Resting(orderbooks[s])
                 /\ id \notin InLevels(orderbooks[s])
        /\ \A level \in AllLevels(orderbooks[s]) :
              level.total_quantity <= SumOrdered(level.orders, all_orders)

\* C12: once an order is CANCELLED it is in no price level: after every call
\* no CANCELLED order is in the book, the depth counts only orders that are
\* in the levels, and no fill a call makes goes to an order that was
\* CANCELLED before the call.
C12_CancelledStaysOut ==
    [][ /\ CancelledOutOfBook'
        /\ \A i \in (Len(fills) + 1)..Len(fills') :
              fills'[i].order_id \in DOMAIN all_orders =>
                 all_orders[fills'[i].order_id].status # "CANCELLED"
      ]_vars

\* an order was cancelled unfilled, and an order that arrived later at the
\* same price on the same side has been matched as a maker since
C12_Witness ==
    \E c \in DOMAIN all_orders : \E i \in 1..Len(fills) :
        LET m == all_orders[fills[i].order_id]
        IN  /\ all_orders[c].status = "CANCELLED"
            /\ all_orders[c].time_in_force = "GTC"
            /\ all_orders[c].filled_quantity = 0
            /\ fills[i].is_maker
            /\ m.order_id > c
            /\ m.side = all_orders[c].side /\ m.price = all_orders[c].price

\* C13: placing a LIMIT order that rests without matching and cancelling it
\* straight away (by its owner) gives back the depth of before the placement,
\* on both sides and at every level.
C13_PlaceThenCancelRestoresDepth ==
    CanPlace =>
        \A r \in PlaceRequests :
            LET placed == Placed(r)
                order_id == placed.ret.order_id
                cancelled == cancel_order(placed.eng, r.session_id, order_id)
            IN  (/\ r.order_type = "LIMIT"
                 /\ placed.ret.result = "ok"
                 /\ placed.ret.fills = <<>>
                 /\ order_id \in Resting(placed.eng.orderbooks[r.symbol]))
                => /\ cancelled.ret.result = "ok"
                   /\ get_depth(cancelled.eng.orderbooks[r.symbol])
                         = get_depth(orderbooks[r.symbol])

\* C14: an order that is FILLED, CANCELLED or REJECTED keeps its status and
\* its filled quantity through every later place_order and cancel_order call.
C14_TerminalIsAbsorbing ==
    [][ \A id \in DOMAIN all_orders :
            all_orders[id].status \in TerminalStatuses =>
                /\ id \in DOMAIN all_orders'
                /\ all_orders'[id].status = all_orders[id].status
                /\ all_orders'[id].filled_quantity = all_orders[id].filled_quantity
      ]_vars

\* orders of all three terminal statuses, with later orders placed after them
C14_Witness ==
    /\ Len(all_orders) = MaxOrders
    /\ \E id \in DOMAIN all_orders :
          id < MaxOrders /\ all_orders[id].status = "REJECTED"
    /\ \E id \in DOMAIN all_orders :
          id < MaxOrders /\ all_orders[id].status \in {"FILLED", "CANCELLED"}

\* ---- conservation ----------------------------------------------------------
\* cash balance + position quantity * price of one session
Equity(eng, session_id, symbol, price) ==
    BalanceOf(eng, default_balance, session_id)
        + PositionOf(eng, session_id, symbol) * price

RECURSIVE SumEquity(_, _, _, _)
SumEquity(eng, sessions, symbol, price) ==
    IF sessions = {} THEN 0
    ELSE LET x == CHOOSE x \in sessions : TRUE
         IN  Equity(eng, x, symbol, price)
                + SumEquity(eng, sessions \ {x}, symbol, price)

\* C15: over the sessions that take part in the trades of a call, the sum of
\* cash balance + position quantity * last_price is the same before and after
\* the call, with the positions held before and after both valued at the
\* price of the trade (the last_price the call leaves).
C15_TradeConservesEquity ==
    [][ Len(fills') > Len(fills) =>
            LET new == { fills'[i] : i \in (Len(fills) + 1)..Len(fills') }
                traders == { f.session_id : f \in new }
            IN  \A s \in Symbols :
                    (\E f \in new : f.symbol = s) =>
                        SumEquity(Engine', traders, s, last_prices'[s])
                            = SumEquity(Engine, traders, s, last_prices'[s])
      ]_vars

\* the two sessions have traded with each other at two different prices and
\* hold opposite positions
C15_Witness ==
    /\ \E i, j \in 1..Len(fills) :
          /\ fills[i].price # fills[j].price
          /\ fills[i].session_id # fills[j].session_id
    /\ \E s \in Symbols :
          /\ PositionOf(Engine, "A", s) # 0
          /\ PositionOf(Engine, "A", s) + PositionOf(Engine, "B", s) = 0
          /\ last_prices[s] # NoPrice

\* ---- the ticker ------------------------------------------------------------
\* C16: for each symbol the TICKER messages the server has produced after n
\* iterations of its broadcast loop carry the sequence_id values 1, 2, ..., n,
\* whether frames are dropped and whoever is subscribed.
C16_TickerSequence ==
    \A s \in Symbols :
        /\ Len(ticker_produced[s]) = ticks
        /\ \A i \in 1..Len(ticker_produced[s]) :
              /\ "sequence_id" \in DOMAIN ticker_produced[s][i]
              /\ ticker_produced[s][i].sequence_id = i

\* ---- the sequence tracker --------------------------------------------------
\* C17: update for a key whose expected value is e (1 at first): seq = e
\* reports no gap and sets expected to e + 1; seq < e reports no gap and
\* leaves expected as it is; seq > e reports the gap [e, seq - 1] and sets
\* expected to seq + 1; expected never goes down and no other key changes.
C17_TrackerUpdate ==
    \A channel \in Channels, symbol \in TrackedSymbols, seq \in SequenceIds :
        LET e == get_expected(expected_sequences, channel, symbol)
            r == update(expected_sequences, channel, symbol, seq)
            after == get_expected(r.expected, channel, symbol)
        IN  /\ e >= 1
            /\ seq = e => r.gap = NoGap /\ after = e + 1
            /\ seq < e => r.gap = NoGap /\ after = e
            /\ seq > e => /\ r.gap = Gap(channel, symbol, e, seq - 1)
                          /\ after = seq + 1
            /\ after >= e
            /\ \A c \in Channels, y \in TrackedSymbols :
                  <<c, y>> # <<channel, symbol>> =>
                     get_expected(r.expected, c, y) = get_expected(expected_sequences, c, y)

\* one key has advanced to the largest expectation while another has never
\* been updated
C17_Witness ==
    \E k \in DOMAIN expected_sequences : \E c \in Channels, y \in TrackedSymbols :
        /\ expected_sequences[k] = MaxSeq + 1
        /\ <<c, y>> \notin DOMAIN expected_sequences

\* ---- the rate limiter ------------------------------------------------------
\* floor(baseline_rps * multiplier) for the multiplier the detector reports
FloorLimit(cfg, high) ==
    IF high THEN (cfg.baseline_rps * cfg.multiplier_num) \div cfg.multiplier_den
    ELSE cfg.baseline_rps

\* how many of the first i admitted requests fall into the second that ends
\* with the i-th
AdmittedInSecond(log, i) ==
    Cardinality({ j \in 1..i : log[j].time > log[i].time - Seconds(1) })

\* C18: for a session without violations, every admitted request is at most
\* the floor(baseline_rps * multiplier)-th admitted one of the second that
\* ends with it, multiplier being the detector's at that moment.
C18_AtMostLimitPerSecond ==
    \A s \in LimitedSessions :
        violation_log[s] = <<>> =>
            \A i \in 1..Len(admitted_log[s]) :
                AdmittedInSecond(admitted_log[s], i)
                    <= FloorLimit(limiter_config, admitted_log[s][i].high_volume)

\* the violations of a session that are younger than the violation window
RecentViolations(s) ==
    Cardinality({ i \in 1..Len(violation_log[s]) :
        violation_log[s][i] > now - Seconds(limiter_config.violation_window_seconds) })

\* the session is refused at every time from..(upto - 1), and the refusals
\* count as no violation
BannedDuring(lim, s, from, upto) ==
    \A t \in from..(upto - 1) :
        LET again == check_rate_limit(lim, limiter_config, high_volume, s, t)
        IN  ~again.ret.allowed /\ again.lim = lim

C20_RestEscalation ==
    LET got == responses[RestSession]
    IN  /\ Len(got) >= 1 => got[1].status = 429 /\ got[1].retry_after = 10
        /\ Len(got) >= 2 => got[2].status = 429 /\ got[2].retry_after = 60
        /\ Len(got) >= 3 => /\ got[3].status = 429 /\ got[3].retry_after = NoRetry
                             /\ RestSession \in limiter.permanent_bans

\* the limiter with one more refusal counted and nothing else changed
OnlyCounted(lim) == [lim EXCEPT !.rate_limited_count = @ + 1]

\* no request of the session was admitted during the second that ends at t
QuietSecond(s, t) ==
    \A i \in 1..Len(admitted_log[s]) : admitted_log[s][i].time < t - Seconds(1)

\* C21: a request of a banned session is refused and leaves the session's
\* request history, violations and bans as they were; after a temporary ban
\* has expired the session is admitted again (its rate permitting); a
\* permanently banned session is refused at every later time, with no
\* retry_after and no Retry-After on the 429.
C21_BansHoldAndExpire ==
    \A s \in LimitedSessions :
        LET r == limiter_apply(limiter, limiter_config, high_volume, s, now)
        IN  /\ IsBanned(limiter, s, now) =>
                    /\ ~r.ret.allowed
                    /\ rest_check_rate_limit(r.ret).status = 429
                    /\ r.lim = OnlyCounted(limiter)
            /\ ( /\ s \notin limiter.permanent_bans
                 /\ s \in DOMAIN limiter.session_bans
                 /\ limiter.session_bans[s] <= now
                 /\ QuietSecond(s, now) ) => r.ret.allowed
            /\ s \in limiter.permanent_bans =>
                    \A t \in now..(MaxTime + Seconds(limiter_config.violation_window_seconds)) :
                        LET later == limiter_apply(limiter, limiter_config, high_volume, s, t)
                        IN  /\ ~later.ret.allowed
                            /\ later.ret.retry_after = NoRetry
                            /\ rest_check_rate_limit(later.ret) =
                                   [status |-> 429, retry_after |-> NoRetry]
                            /\ later.lim = OnlyCounted(limiter)

\* a session was refused during its ban and admitted after the ban's expiry
C21_Witness ==
    \E s \in LimitedSessions :
        /\ Len(violation_log[s]) = 1
        /\ limiter.rate_limited_count > 1
        /\ \E i \in 1..Len(admitted_log[s]) :
               admitted_log[s][i].time
                   >= violation_log[s][1] + Seconds(limiter_config.wait_period_seconds)

\* ---- a silent connection ---------------------------------------------------
\* C22: with Silent(after_messages = K) held by the server, for each session
\* on its own the first K frames offered to the strategy since its last reset
\* are delivered and every later one is suppressed, whatever its type and
\* whatever the other sessions were sent.
C22_SilentPerSession ==
    silent # NoSilent =>
        \A x \in Sessions :
            \A i \in 1..Len(silent_offered[x]) :
                silent_offered[x][i].delivered <=> i <= silent.after_messages

\* one session has gone silent and the other one was sent a frame after that
C22_Witness ==
    /\ silent # NoSilent
    /\ silent.after_messages > 0
    /\ \E x \in Sessions :
           /\ Len(silent_offered[x]) > silent.after_messages
           /\ ~silent_offered[x][Len(silent_offered[x])].delivered
           /\ last_handled.session_id \in Sessions \ {x}
           /\ last_handled.sent # NoMessage
           /\ silent.dropped_count > 0

\* ---- PING on the streaming endpoint ----------------------------------------
\* C23: a PING frame that passed the inbound pipeline is answered by a PONG
\* carrying the PING's request_id.
C23_PingAnsweredByPong ==
    ( /\ last_handled.inbound # NoMessage
      /\ last_handled.inbound # NotJson
      /\ last_handled.inbound.valid
      /\ last_handled.inbound.type = "PING" )
        => last_handled.reply = PongMessage(last_handled.inbound.request_id)

\* ---- the fault pipeline ----------------------------------------------------
\* what inject does to a frame given to `strategies`, told from the calls it
\* made: strategies 1..n were applied in this order, each to what the one
\* before returned; the chain ended early only at a strategy that returned
\* None, and what follows that strategy is as it was
ChainedInOrder(enabled, strategies, message, draws) ==
    LET r == inject(enabled, strategies, message, draws)
        n == Len(r.calls)
    IN  IF ~enabled
        THEN r = [strategies |-> strategies, out |-> message, calls |-> <<>>]
        ELSE
        /\ n <= Len(strategies)
        /\ \A i \in 1..n :
               LET given == IF i = 1 THEN message ELSE r.calls[i - 1].returned
                   step == strategy_apply(strategies[i], given, draws[i])
               IN  /\ r.calls[i] = [index |-> i, given |-> given, returned |-> step.out]
                   /\ r.strategies[i] = step.strategy
                   /\ given # NoMessage
        /\ \A j \in (n + 1)..Len(strategies) : r.strategies[j] = strategies[j]
        /\ Len(r.strategies) = Len(strategies)
        /\ r.out = IF n = 0 THEN message ELSE r.calls[n].returned
        /\ n < Len(strategies) => r.out = NoMessage

\* C27: the pipeline applies its strategies in registration order, each to
\* the output of the one before; the first strategy that returns None ends
\* the chain with None and no later strategy is invoked; a disabled injector
\* returns the frame unchanged and invokes no strategy.
C27_ChainShortCircuits ==
    \A message \in {NotJson, PingFrame("r1")} :
        /\ \A draws \in Draws(injector.inbound_strategies) :
               ChainedInOrder(injector.enabled, injector.inbound_strategies,
                              message, draws)
        /\ \A draws \in Draws(injector.outbound_strategies) :
               ChainedInOrder(injector.enabled, injector.outbound_strategies,
                              message, draws)

\* a frame was duplicated by the first strategy of a chain and dropped by
\* the second one, before it reached the third
C27_Witness ==
    /\ injector.enabled
    /\ Len(injector.inbound_strategies) = 3
    /\ injector.inbound_strategies[1].kind = "DuplicateMessageStrategy"
    /\ injector.inbound_strategies[1].duplicated_count = 1
    /\ injector.inbound_strategies[2].kind = "DropMessageStrategy"
    /\ injector.inbound_strategies[2].dropped_count = 1
    /\ injector.inbound_strategies[3] = CorruptMessageStrategy(50)
    /\ frames_handled = 1
    /\ last_handled.inbound = NoMessage

\* ---- routing ---------------------------------------------------------------
\* a frame that is no JSON object of a client message type with valid fields
Unparsable(frame) ==
    \/ ~frame.json
    \/ frame.type \notin ClientTypes
    \/ ~frame.valid

\* C28 as stated: routing a frame always yields a reply; a body that is not
\* JSON yields ERROR INVALID_MESSAGE, a frame of a kind the router has no
\* handler for yields ERROR NO_HANDLER, a handler that fails yields ERROR
\* HANDLER_ERROR whose details carry the message type.
C28_AlwaysReplies ==
    \A session_id \in Sessions, frame \in RouterFrames :
        LET r == route(handlers, frame, session_id, Engine, default_balance,
                       subscriptions)
        IN  /\ ~r.raised
            /\ r.reply # NoMessage
            /\ ~frame.json => r.reply.code = "INVALID_MESSAGE"
            /\ (frame.json /\ frame.type \notin DOMAIN handlers)
                   => r.reply.code = "NO_HANDLER"
            /\ (~Unparsable(frame) /\ frame.type \in DOMAIN handlers
                   /\ handlers[frame.type] = "MockHandler")
                   => /\ r.reply.code = "HANDLER_ERROR"
                      /\ r.reply.details = [message_type |-> frame.type]

\* C28 amended: routing never raises and yields a message or nothing; a
\* frame that does not parse (no JSON, no or an unknown or a server-side
\* type, fields that do not validate) yields ERROR INVALID_MESSAGE, a parsed
\* frame of a type without a registered handler yields ERROR NO_HANDLER, a
\* handler that fails yields ERROR HANDLER_ERROR whose details carry the
\* message type; in these three cases the engine and the subscriptions are
\* left alone. Nothing is yielded only for a SUBSCRIBE or UNSUBSCRIBE that
\* the subscription handler carried out.
C28_RepliesOrErrors ==
    \A session_id \in Sessions, frame \in RouterFrames :
        LET r == route(handlers, frame, session_id, Engine, default_balance,
                       subscriptions)
            failed == \/ Unparsable(frame)
                      \/ frame.type \notin DOMAIN handlers
                      \/ handlers[frame.type] = "MockHandler"
        IN  /\ ~r.raised
            /\ Unparsable(frame) =>
                   r.reply = ErrorMessage(NoRequestId, "INVALID_MESSAGE", NoDetails)
            /\ (~Unparsable(frame) /\ frame.type \notin DOMAIN handlers) =>
                   r.reply = ErrorMessage(NoRequestId, "NO_HANDLER", NoDetails)
            /\ (~Unparsable(frame) /\ frame.type \in DOMAIN handlers
                   /\ handlers[frame.type] = "MockHandler") =>
                   r.reply = ErrorMessage(NoRequestId, "HANDLER_ERROR",
                                          [message_type |-> frame.type])
            /\ failed => r.eng = Engine /\ r.subs = subscriptions
            /\ r.reply = NoMessage =>
                   /\ frame.type \in {"SUBSCRIBE", "UNSUBSCRIBE"}
                   /\ handlers[frame.type] = "SubscriptionHandler"
                   /\ <<frame.body.channel, frame.body.symbol>> \in r.subs[session_id]
                          <=> frame.type = "SUBSCRIBE"
            /\ r.reply # NoMessage => r.reply.type \in MessageTypes

\* a router whose handler raises has answered a PING with HANDLER_ERROR
\* after an order frame
C28_Witness ==
    /\ frames_handled > 1
    /\ last_handled.frame = PingFrame("r1")
    /\ last_handled.reply =
           ErrorMessage(NoRequestId, "HANDLER_ERROR", [message_type |-> "PING"])
\* the calls on_health_change(healthy) delivered for connection ws so far
HealthDelivered(log, healthy, ws) ==
    \E i \in 1..Len(log) : log[i] = [healthy |-> healthy, ws |-> ws]

\* C24: when the timeout of a PING fires and no PONG with its request_id was
\* handled (the id is still pending), the heartbeat is unhealthy afterwards
\* and on_health_change(False) has been delivered for the connection the
\* PING was sent on
C24_TimeoutDeclaresUnhealthy ==
    [][\A request_id \in hb_timers \ hb_timers' :
          request_id \in heartbeat.pending =>
              /\ ~heartbeat'.healthy
              /\ HealthDelivered(health_changes', FALSE, ping_log[request_id].ws)]_vars

\* C25: while the heartbeat is unhealthy, handling the PONG of a PING sent
\* on this connection restores health and delivers on_health_change(True),
\* whether or not the timeout of that PING has fired
C25_LatePongRestoresHealth ==
    [][\A request_id \in 1..Len(ping_log) :
          /\ ping_log'[request_id].pongs = ping_log[request_id].pongs + 1
          /\ ping_log[request_id].ws = heartbeat.ws
          /\ ~heartbeat.healthy
          => /\ heartbeat'.healthy
             /\ health_changes' =
                    Append(health_changes, [healthy |-> TRUE, ws |-> heartbeat.ws])]_vars

\* the delay slept after the k-th failed attempt: initial, 2 initial,
\* 4 initial, ... capped at max
BackoffDelay(k) == Min(ReconnectInitialBackoff * 2^(k - 1), ReconnectMaxBackoff)

C29_MatchingAtomic ==
    [][/\ \A slot \in Slots : inflight'[slot].pc # "matched"
       /\ \/ Engine' = Engine
          \/ \E slot \in Slots :
                /\ inflight[slot].pc = "received"
                /\ inflight'[slot].pc = "called"
                /\ Engine' = CompleteCall(Engine, default_balance, inflight[slot])]_vars

\* a streaming and a REST request were in flight together: one is a
\* place_order that filled against the book, the other a cancel_order, and
\* both calls have been made
C29_Witness ==
    \E s1 \in Slots, s2 \in Slots :
        /\ s1.via # s2.via
        /\ inflight[s1].kind = "place"
        /\ inflight[s1].pc = "called"
        /\ inflight[s1].got # <<>>
        /\ inflight[s2].kind = "cancel"
        /\ inflight[s2].pc = "called"
        /\ \E i \in 1..Len(all_orders) : all_orders[i].status = "CANCELLED"

OccurrencesIn(book, id) ==
    Cardinality({ <<side, p, i>> \in Sides \X Prices \X (1..MaxOrders) :
        \E levels \in {IF side = "BUY" THEN book.bids ELSE book.asks} :
            /\ p \in DOMAIN levels
            /\ i \in 1..Len(levels[p].orders)
            /\ levels[p].orders[i] = id })

\* C31: after every completed place_order or cancel_order call the book of
\* every symbol has no empty price level; every resting order is of that
\* symbol and is exactly once in the levels, in the level of its own side
\* and price; nothing is in a level that is not resting; and no resting
\* order is a MARKET order, in a terminal status, or without remaining
\* quantity
C31_BookWellFormed ==
    \A s \in Symbols :
        \E book \in {orderbooks[s]} :
            /\ \A level \in AllLevels(book) : level.orders # <<>>
            /\ DOMAIN book.bids \subseteq Prices /\ DOMAIN book.asks \subseteq Prices
            /\ InLevels(book) = Resting(book)
            /\ \A id \in Resting(book) :
                  /\ id \in DOMAIN all_orders
                  /\ all_orders[id].symbol = s
                  /\ all_orders[id].order_type # "MARKET"
                  /\ all_orders[id].status \notin TerminalStatuses
                  /\ remaining_quantity(all_orders[id]) > 0
                  /\ OccurrencesIn(book, id) = 1
                  /\ all_orders[id].price \in
                        DOMAIN (IF all_orders[id].side = "BUY" THEN book.bids ELSE book.asks)
                  /\ InSeq(LevelOf(book, all_orders[id]).orders, id)

\* a book with a partially filled order resting, after a maker was filled
\* and removed and an order was cancelled
C31_Witness ==
    \E s \in Symbols :
        /\ \E id \in Resting(orderbooks[s]) : all_orders[id].status = "PARTIALLY_FILLED"
        /\ \E id \in DOMAIN all_orders :
              all_orders[id].status = "FILLED" /\ all_orders[id].order_type = "LIMIT"
        /\ \E id \in DOMAIN all_orders : all_orders[id].status = "CANCELLED"

\* the fills recorded for an order
FillsOf(id) == SelectSeq(fills, LAMBDA f : f.order_id = id)

\* C32: once place_order has returned for a FOK order, the order is either
\* FILLED with filled_quantity = quantity and fills that add up to it, or
\* REJECTED with filled_quantity = 0 and no fill recorded for it
C32_FOKAllOrNothing ==
    \A id \in DOMAIN all_orders :
        all_orders[id].time_in_force = "FOK" =>
            \/ /\ all_orders[id].status = "FILLED"
               /\ all_orders[id].filled_quantity = all_orders[id].quantity
               /\ SumQuantity(FillsOf(id)) = all_orders[id].quantity
            \/ /\ all_orders[id].status = "REJECTED"
               /\ all_orders[id].filled_quantity = 0
               /\ FillsOf(id) = <<>>

\* how often a frame occurs in a sequence of frames
CountIn(frames, frame) == Cardinality({ i \in 1..Len(frames) : frames[i] = frame })

\* the frames of a sequence of emissions
FramesOf(emissions) == [i \in 1..Len(emissions) |-> emissions[i].frame]

\* the frames passed in are, as a multiset, the frames returned so far plus
\* the frames still buffered, and fewer than window_size frames are buffered
ReorderConserves ==
    /\ \A session_id \in Sessions :
           CountIn(offered, FrameOf(session_id))
               = CountIn(FramesOf(emitted), FrameOf(session_id))
                 + CountIn(tested.buffer, FrameOf(session_id))
    /\ Len(offered) = Len(emitted) + Len(tested.buffer)
    /\ Len(tested.buffer) < tested.window_size

\* C33: a ReorderMessagesStrategy only permutes frames: apply returns
\* nothing when the buffer with the new frame holds fewer than window_size
\* frames and exactly one buffered frame otherwise; flush returns every
\* buffered frame and leaves the buffer empty; and after every call the
\* frames passed in are, as a multiset, the frames returned so far plus the
\* frames still buffered (none lost, none returned twice)
C33_ReorderOnlyPermutes ==
    [][tested.kind = "ReorderMessagesStrategy" =>
          /\ ReorderConserves'
          /\ IF offered' # offered
             THEN IF Len(tested.buffer) + 1 < tested.window_size
                  THEN emitted' = emitted
                  ELSE /\ Len(emitted') = Len(emitted) + 1
                       /\ \/ emitted'[Len(emitted')].frame = offered'[Len(offered')]
                          \/ InSeq(tested.buffer, emitted'[Len(emitted')].frame)
             ELSE /\ FramesOf(emitted') = FramesOf(emitted) \o tested.buffer
                  /\ tested'.buffer = <<>>]_vars

\* a window of 3 has returned a frame that was not the oldest, holds two
\* frames, and a flush has returned frames as well
C33_Witness ==
    /\ tested.kind = "ReorderMessagesStrategy"
    /\ tested.window_size = 3
    /\ tested.reordered_count > 0
    /\ Len(offered) = MaxOffered
    /\ \E i \in 1..Len(emitted) : emitted[i].session_id = "flush"
    /\ \E i \in 1..Len(emitted) : emitted[i].session_id # "flush"
    /\ FramesOf(emitted) # offered

\* C34: a DuplicateMessageStrategy never suppresses a frame: every frame
\* passed to it has been emitted at least as often as it was passed in, the
\* copies coming on top
C34_DuplicateNeverSuppresses ==
    tested.kind = "DuplicateMessageStrategy" =>
        \A session_id \in Sessions :
            CountIn(FramesOf(emitted), FrameOf(session_id))
                >= CountIn(offered, FrameOf(session_id))

\* C35: any two frames emitted by one ThrottleMessageStrategy are at least
\* min_interval (1 / max_messages_per_second) apart, whichever sessions
\* passed them in
C35_ThrottleSpacing ==
    tested.kind = "ThrottleMessageStrategy" =>
        \A i, j \in 1..Len(emitted) :
            i < j => emitted[j].at - emitted[i].at >= tested.min_interval

\* C36: frames never cross sessions: the frame a session's call into the
\* injector gets back (routed under that session's id when inbound, sent to
\* that session when outbound) is a frame that this session passed in
C36_FramesStayInSession ==
    \A i \in 1..Len(emitted) :
        emitted[i].session_id \in Sessions
            => emitted[i].frame.from = emitted[i].session_id

\* C37: when an attempt of the recovery has connected, the heartbeat that
\* was started on the new connection is healthy, so that a PONG timeout on
\* the new connection is reported through on_health_change(False) again
C37_RecoveryRestoresHeartbeat ==
    [][/\ network.recovery = "attempt"
       /\ network'.recovery = "idle"
       /\ network'.ws # NoWs
       => heartbeat'.healthy]_vars

\* the runs of _handle_silent_connection that are under way
InRecovery == { runner \in Runners : tasks[runner].pc \in {"await_monitor", "reconnect", "backoff"} }

\* C38: at most one run of _handle_silent_connection is in progress at any
\* time, whichever detectors fire and however they interleave
C38_OneRecoveryAtATime ==
    Cardinality(InRecovery) <= 1

\* two runs are both past their teardown, each waiting in its own connect_ws
\* or in the sleep between two attempts
TwoReconnecting ==
    Cardinality({ runner \in Runners : tasks[runner].pc \in {"reconnect", "backoff"} }) >= 2

\* the position quantities of all accounts in a symbol, added up
RECURSIVE SumPositions(_, _, _)
SumPositions(eng, sessions, symbol) ==
    IF sessions = {} THEN 0
    ELSE LET x == CHOOSE y \in sessions : TRUE
         IN  PositionOf(eng, x, symbol) + SumPositions(eng, sessions \ {x}, symbol)

\* C39: for every symbol the position quantities of all accounts add up to
\* zero after any sequence of place_order and cancel_order calls
C39_PositionsNetToZero ==
    \A s \in Symbols : SumPositions(Engine, DOMAIN accounts, s) = 0

C39_Witness ==
    /\ \E s \in Symbols : PositionOf(Engine, "A", s) > 0 /\ PositionOf(Engine, "B", s) < 0
    /\ \E id \in 1..Len(all_orders) :
          all_orders[id].status = "CANCELLED" /\ all_orders[id].filled_quantity > 0

\* how often update accepted the id for the key, and the reported gaps of
\* the key that the id lies in
TimesAccepted(key, id) == Len(SelectSeq(accepted_ids[key], LAMBDA a : a = id))

GapsHolding(key, id) ==
    { i \in 1..Len(reported_gaps[key]) :
        reported_gaps[key][i].start_seq <= id /\ id <= reported_gaps[key][i].end_seq }

\* C40: for the ids fed to update for one (channel, symbol) since the key
\* was last reset, the reported gaps are pairwise disjoint, and every id from
\* 1 to expected - 1 was accepted exactly once and lies in no gap, or was
\* never accepted and lies in exactly one gap
C40_GapsPartitionTheIds ==
    \A key \in Channels \X TrackedSymbols :
        /\ \A id \in 0..(MaxSeq + 2) : Cardinality(GapsHolding(key, id)) <= 1
        /\ \A id \in 1..(get_expected(expected_sequences, key[1], key[2]) - 1) :
              \/ TimesAccepted(key, id) = 1 /\ GapsHolding(key, id) = {}
              \/ TimesAccepted(key, id) = 0 /\ Cardinality(GapsHolding(key, id)) = 1

C40_Witness ==
    \E key \in Channels \X TrackedSymbols :
        /\ Len(reported_gaps[key]) >= 1
        /\ Len(accepted_ids[key]) >= 2
        /\ get_expected(expected_sequences, key[1], key[2]) = MaxSeq + 1

====
